---------------------------- MODULE Spec2Model ----------------------------
(***************************************************************************)
(* Model of the earliest-deployment-timestamp lookup of                    *)
(* src/src/commands/getTimestamp.ts: getTimestamp (the endpoint loop),     *)
(* findFirstTimestampBinarySearch (the coarse search),                     *)
(* checkSlotForProgramTransactions (one probe), getTimestampFromSlot (the  *)
(* backward pagination), retryOperation and isValidProgramId.              *)
(*                                                                         *)
(* One behaviour is one invocation of getTimestamp.  The code is a single  *)
(* sequential async task; pc is its position, and a step runs the code     *)
(* from one position to the next.  The remote endpoints are the            *)
(* environment: the ledger an endpoint serves is drawn when its            *)
(* Connection is created, and every attempt of a remote call may fail.     *)
(***************************************************************************)
EXTENDS Integers, Sequences, FiniteSets, TLC

(***************************************************************************)
(* Bounds of the model.                                                    *)
(***************************************************************************)
MaxEndpoints == 3   \* longest endpoint list
MaxRetries == 2     \* largest value of options.retries
MaxSlot == 2        \* largest latest slot an endpoint reports
MaxTxs == 3         \* longest signature history of the program
PageLimit == 2      \* stands for `limit = 1000` of the pagination, scaled down
MaxCoarseSlot == 5  \* largest latest slot when the coarse search is checked alone
MaxFineSlot == 3    \* largest latest slot when the pagination is checked alone
MaxFineTxs == 4     \* longest signature history when the pagination is checked alone
MaxIdBytes == 34    \* longest byte array encoded into an id for isValidProgramId
MaxShortfall == 2   \* options.retries goes down to -MaxShortfall when negatives are let in

(***************************************************************************)
(* Values.                                                                 *)
(***************************************************************************)
\* JavaScript's null for a `number | null`.
Null == 0 - 1

\* options.retries ?? 3
DefaultRetries == 3

\* options.retryDelay ?? 1000
DefaultRetryDelay == 1000

\* The `limit: 1` of the probe's getSignaturesForAddress call.
ProbeLimit == 1

\* The block time of a slot: later slots are not earlier in time.  Never 0,
\* which JavaScript takes for false.
TimeOf(slot) == slot + 1

\* `if (x)` on a `number | null | undefined`.
Truthy(x) == x # Null /\ x # 0

Min(a, b) == IF a <= b THEN a ELSE b

(***************************************************************************)
(* isValidProgramId.  A program id is a sequence of one-character strings. *)
(***************************************************************************)
\* The alphabet of bs58, and of the regular expression /^[1-9A-HJ-NP-Za-km-z]+$/.
Base58Alphabet ==
  << "1","2","3","4","5","6","7","8","9",
     "A","B","C","D","E","F","G","H","J","K","L","M","N","P","Q","R","S","T",
     "U","V","W","X","Y","Z",
     "a","b","c","d","e","f","g","h","i","j","k","m","n","o","p","q","r","s",
     "t","u","v","w","x","y","z" >>

Base58Chars == {Base58Alphabet[i] : i \in 1..Len(Base58Alphabet)}

Base58Value(c) == (CHOOSE i \in 1..Len(Base58Alphabet) : Base58Alphabet[i] = c) - 1

\* base58Regex.test(programId)
Base58RegexTest(id) == Len(id) > 0 /\ \A i \in 1..Len(id) : id[i] \in Base58Chars

\* The loops of the base conversions take their range half by half, so that
\* the evaluation of n turns is nested log n deep.  (`s # s` is never true:
\* asking it has the first half computed before the second is begun.)

\* bs58.decode, one digit: the turns lo..hi of bytes := bytes * 58 + carry,
\* bytes little-endian, s the bytes written and the carry so far.
RECURSIVE MulAddRange(_, _, _, _)
MulAddRange(bytes, s, lo, hi) ==
  IF lo > hi \/ s # s THEN s
  ELSE IF lo = hi
       THEN LET v == bytes[lo] * 58 + s.carry
            IN  [out |-> Append(s.out, v % 256), carry |-> v \div 256]
       ELSE LET middle == (lo + hi) \div 2
            IN  MulAddRange(bytes, MulAddRange(bytes, s, lo, middle), middle + 1, hi)

\* One digit of the base conversion of bs58.decode: bytes := bytes * 58 + carry
\* from byte i on, bytes little-endian without leading zero bytes.  What is
\* carried out of the last byte is less than 58 and makes one more byte.
MulAdd(bytes, i, carry) ==
  LET done == MulAddRange(bytes, [out |-> << >>, carry |-> carry], i, Len(bytes))
  IN  IF done.carry = 0 THEN done.out ELSE Append(done.out, done.carry)

\* The digits lo..hi of id, taken into bytes one by one.
RECURSIVE Base58DigitsRange(_, _, _, _)
Base58DigitsRange(id, bytes, lo, hi) ==
  IF lo > hi \/ bytes # bytes THEN bytes
  ELSE IF lo = hi THEN MulAdd(bytes, 1, Base58Value(id[lo]))
  ELSE LET middle == (lo + hi) \div 2
       IN  Base58DigitsRange(id, Base58DigitsRange(id, bytes, lo, middle),
                             middle + 1, hi)

\* The digits of id from position i on, taken into bytes one by one.
Base58Digits(id, i, bytes) == Base58DigitsRange(id, bytes, i, Len(id))

\* The leading "1"s of an id, not counted.
LeadingOnesIgnored(id, i) == 0

\* The number of "1"s of id from position i up to the first other character.
LeadingOnes(id, i) ==
  LET others == {k \in i..Len(id) : id[k] # "1"}
  IN  IF others = {}
      THEN IF i <= Len(id) THEN Len(id) - i + 1 ELSE 0
      ELSE (CHOOSE k \in others : \A j \in others : k <= j) - i

\* bs58.decode(programId).length without the zero bytes of the leading "1"s.
Bs58DecodedLengthNoZeroes(id) ==
  Len(Base58Digits(id, LeadingOnes(id, 1) + 1, << >>))

\* bs58.decode(programId).length: one zero byte per leading "1", then the bytes
\* of the number the other digits spell.
Bs58DecodedLength(id) ==
  LET zeroes == LeadingOnes(id, 1)
  IN  zeroes + Len(Base58Digits(id, zeroes + 1, << >>))

\* isValidProgramId without the check of the decoded length.
isValidProgramIdRegexOnly(id) ==
  IF Len(id) = 0 THEN FALSE ELSE Base58RegexTest(id)

isValidProgramId(id) ==
  IF Len(id) = 0 THEN FALSE
  ELSE IF ~Base58RegexTest(id) THEN FALSE
  ELSE Bs58DecodedLength(id) = 32

(***************************************************************************)
(* Inputs of one invocation.                                               *)
(***************************************************************************)
\* "11111111111111111111111111111111", the system program: 32 zero bytes.
SystemProgramId == [i \in 1..32 |-> "1"]

\* 'invalidaddress' of the test suite ("l" is no base58 character).
InvalidAddress == <<"i","n","v","a","l","i","d","a","d","d","r","e","s","s">>

\* A base58 string that decodes to 3 bytes.
ShortId == <<"a","b","c">>

ProgramIds == {SystemProgramId, InvalidAddress, ShortId, << >>}

\* The ids of ProgramIds that are no base58 spelling of 32 bytes.
InvalidProgramIds == {InvalidAddress, ShortId, << >>}

\* The endpoint lists: the i-th URL is written i.  The code never reads a URL
\* but to open its connection.
EndpointLists == {[i \in 1..n |-> i] : n \in 0..MaxEndpoints}

(***************************************************************************)
(* The ledger an endpoint serves.  latestSlot is what getSlot answers;     *)
(* present is the set of slots whose block has transactions (getBlock of   *)
(* any other slot answers null or an empty transaction list, which the     *)
(* code does not tell apart); history is the slots of the program's        *)
(* transactions, newest first; untimed is the set of the slots for whose   *)
(* block the endpoint reports no blockTime (`blockTime: null`).  Slot 0    *)
(* is the genesis block, which the search never fetches.                   *)
(***************************************************************************)
SlotsOf(h) == {h[i] : i \in 1..Len(h)}

Histories(slots) ==
  UNION {{h \in [1..n -> slots] : \A i \in 1..(n - 1) : h[i] >= h[i + 1]}
         : n \in 0..MaxTxs}

Ledgers ==
  UNION {UNION {UNION {{[latestSlot |-> n, present |-> p, history |-> h,
                         untimed |-> u] : u \in SUBSET SlotsOf(h)}
                       : h \in Histories(p \cup {0})}
                : p \in SUBSET (1..n)}
         : n \in 0..MaxSlot}

\* The blockTime the endpoint reports for a transaction of that slot.
BlockTime(conn, slot) == IF slot \in conn.untimed THEN Null ELSE TimeOf(slot)

\* A signature is <<"blk", slot>>, the first signature of the first
\* transaction of the block of that slot, or <<"tx", i>>, the signature of the
\* i-th newest transaction of the program.
BlockSignature(slot) == <<"blk", slot>>

\* connection.getBlock(slot): the signatures block.transactions[k].transaction
\* .signatures[0]; only the first is ever read.
GetBlock(conn, slot) ==
  IF slot \in conn.present THEN <<BlockSignature(slot)>> ELSE << >>

\* The positions a `before` selects, were a signature of the program to select
\* the whole history again.
OlderThanIgnoresCursor(conn, before) ==
  IF before[1] = "blk"
  THEN {i \in 1..Len(conn.history) : conn.history[i] < before[2]}
  ELSE 1..Len(conn.history)

\* The positions in the history of the transactions strictly older than `before`.
OlderThan(conn, before) ==
  IF before[1] = "blk"
  THEN {i \in 1..Len(conn.history) : conn.history[i] < before[2]}
  ELSE {i \in 1..Len(conn.history) : i > before[2]}

\* connection.getSignaturesForAddress(programId, {before, limit}): newest first,
\* at most limit entries.
GetSignaturesForAddress(conn, before, limit) ==
  LET older == OlderThan(conn, before)
      first == Len(conn.history) - Cardinality(older) + 1
      n     == Min(limit, Cardinality(older))
  IN  [k \in 1..n |-> [signature |-> <<"tx", first + k - 1>>,
                       blockTime |-> BlockTime(conn, conn.history[first + k - 1])]]

(***************************************************************************)
(* Errors.  An error is identified by what raised it: the endpoint (its    *)
(* position in the list), the remote call and the number of the attempt.   *)
(***************************************************************************)
Err(kind, at, ep, n) == [kind |-> kind, site |-> at, ep |-> ep, attempt |-> n]

\* `let lastError: Error | null = null`
NoError == Err("none", "", 0, 0)

\* What the RPC client raises when attempt n of a call fails.
RpcError(at, ep, n) == Err("rpc", at, ep, n)

\* new Error(`${operationName} failed after ${maxRetries} attempts.`)
RetriesFailedError(at, ep) == Err("failedAfter", at, ep, 0)

\* new Error(`Invalid program ID: ${programId}`)
InvalidProgramIdError(ep) == Err("invalidProgramId", "", ep, 0)

\* new Error(`Could not determine deployment timestamp for program: ...`)
NoTimestampError(ep) == Err("noTimestamp", "", ep, 0)

\* new Error(`Failed to get timestamp using all configured RPC URLs: ${...}`);
\* cause is the error whose message it carries, NoError for 'Unknown error'.
AllFailedError(cause) == [kind |-> "allFailed", cause |-> cause]

(***************************************************************************)
(* State.                                                                  *)
(***************************************************************************)
VARIABLES
  programId, endpoints, maxRetries, retryDelay,    \* getTimestamp's arguments
  cliOptions,             \* --retries and --retry-delay of the command line, Null if left out
  pc,                     \* position in the code
  epIdx,                  \* position in endpoints of the current rpcUrl, 0 before the loop
  connection,             \* the ledger behind `new Connection(rpcUrl)`
  lastError,
  result,                 \* what findFirstTimestampBinarySearch returned
  returned,               \* what getTimestamp returned, Null until then
  thrown,                 \* what getTimestamp threw, NoError until then
  latestSlot, low, high, mid, firstProgramSlot, foundSignaturesAtSlot,
  anySignature,
  oldestSignature, oldestBlockTime,
  observed,               \* the block times of the entries of the pages fetched so far
  site,                   \* retryOperation: which call it wraps
  attempts,               \* retryOperation: `attempts`
  error,                  \* retryOperation: the error caught last
  retVal,                 \* retryOperation: the value it returned
  invocations,            \* times operation() was invoked in this retryOperation
  waited,                 \* milliseconds slept in this retryOperation
  contacted,              \* positions of the endpoints that were sent a remote call
  failedProbes,           \* slots whose probe the search loop caught failing
  configFile,             \* what CONFIG_FILE holds
  lastCall,               \* the operation of config.ts called last and what it returned
  validations             \* validateRpcEndpoints: whether each endpoint given passed

persisted == <<configFile, lastCall>>
inputs == <<programId, endpoints, maxRetries, retryDelay, cliOptions, persisted,
           validations>>
outcome == <<returned, thrown>>
coarse == <<latestSlot, low, high, mid, firstProgramSlot, foundSignaturesAtSlot,
            anySignature, failedProbes>>
fine == <<oldestSignature, oldestBlockTime, observed>>
retry == <<site, attempts, error, retVal, invocations, waited>>
vars == <<inputs, pc, epIdx, connection, lastError, result, outcome, coarse, fine,
          retry, contacted>>

NoOptions == [retries |-> Null, retryDelay |-> Null]
NoConnection == [latestSlot |-> 0, present |-> {}, history |-> << >>, untimed |-> {}]
NoSignature == <<"none", 0>>
EmptyCache == [s \in {} |-> FALSE]
EmptyUrl == 0
NoFile == << >>
NoCall == [op |-> "", url |-> EmptyUrl, result |-> FALSE]

Init ==
  /\ programId \in ProgramIds
  /\ endpoints \in EndpointLists
  /\ maxRetries \in 0..MaxRetries
  /\ retryDelay = DefaultRetryDelay
  /\ cliOptions = NoOptions
  /\ pc = "forEndpoints"
  /\ epIdx = 0
  /\ connection = NoConnection
  /\ lastError = NoError
  /\ result = Null
  /\ returned = Null
  /\ thrown = NoError
  /\ latestSlot = 0 /\ low = 0 /\ high = 0 /\ mid = 0
  /\ firstProgramSlot = Null
  /\ foundSignaturesAtSlot = EmptyCache
  /\ anySignature = NoSignature
  /\ oldestSignature = NoSignature
  /\ oldestBlockTime = Null
  /\ observed = {}
  /\ site = "" /\ attempts = 0 /\ error = NoError /\ retVal = << >>
  /\ invocations = 0 /\ waited = 0
  /\ contacted = {}
  /\ failedProbes = {}
  /\ configFile = NoFile /\ lastCall = NoCall
  /\ validations = << >>

\* The end of a turn of the endpoint loop, were the cache of the search and the
\* slot it found to outlive the turn.
DropLocalsKeepsSearch ==
  /\ connection' = NoConnection
  /\ latestSlot' = 0 /\ low' = 0 /\ high' = 0 /\ mid' = 0
  /\ firstProgramSlot' = firstProgramSlot
  /\ foundSignaturesAtSlot' = foundSignaturesAtSlot
  /\ anySignature' = NoSignature
  /\ oldestSignature' = NoSignature
  /\ oldestBlockTime' = Null
  /\ observed' = {}
  /\ site' = "" /\ attempts' = 0 /\ error' = NoError /\ retVal' = << >>
  /\ invocations' = 0 /\ waited' = 0
  /\ failedProbes' = {}

\* The locals of one turn of the endpoint loop (the connection and those of
\* findFirstTimestampBinarySearch, getTimestampFromSlot and retryOperation) are
\* gone once the turn is over.
DropLocals ==
  /\ connection' = NoConnection
  /\ latestSlot' = 0 /\ low' = 0 /\ high' = 0 /\ mid' = 0
  /\ firstProgramSlot' = Null
  /\ foundSignaturesAtSlot' = EmptyCache
  /\ anySignature' = NoSignature
  /\ oldestSignature' = NoSignature
  /\ oldestBlockTime' = Null
  /\ observed' = {}
  /\ site' = "" /\ attempts' = 0 /\ error' = NoError /\ retVal' = << >>
  /\ invocations' = 0 /\ waited' = 0
  /\ failedProbes' = {}

(***************************************************************************)
(* retryOperation(operation, maxRetries, delayMs, logger, operationName).  *)
(***************************************************************************)
\* `while (attempts < maxRetries)`, were it a do-while loop.
MayAttemptOnceAtLeast(n, max) == n < max \/ n = 0

\* `while (attempts < maxRetries)`
MayAttempt(n, max) == n < max

\* The head of the loop with n failed attempts behind and caught the error
\* caught last: into operation(), or out of the loop to
\* `throw new Error('${operationName} failed after ${maxRetries} attempts.')`.
WhileAttempts(at, n, caught) ==
  IF MayAttempt(n, maxRetries)
  THEN pc' = "invoke" /\ error' = caught
  ELSE pc' = "retryThrew" /\ error' = RetriesFailedError(at, epIdx)

\* A call of retryOperation starts: `let attempts = 0`, the head of the loop.
BeginRetry(at) ==
  /\ site' = at
  /\ attempts' = 0
  /\ retVal' = << >>
  /\ invocations' = 0
  /\ waited' = 0
  /\ WhileAttempts(at, 0, NoError)

\* What operation() resolves to when the endpoint answers.
Response(at) ==
  CASE at = "getSlot" -> connection.latestSlot
    [] at = "probeBlock" -> GetBlock(connection, mid)
    [] at = "probeSignatures" ->
         GetSignaturesForAddress(connection, anySignature, ProbeLimit)
    [] at = "slotBlock" -> GetBlock(connection, firstProgramSlot)
    [] at = "pageSignatures" ->
         GetSignaturesForAddress(connection, oldestSignature, PageLimit)

\* `const isLastAttempt = attempts >= maxRetries`, off by one.
IsLastAttemptLate(n, max) == n > max

\* `const isLastAttempt = attempts >= maxRetries`
IsLastAttempt(n, max) == n >= max

\* `throw error`, throwing the first error caught instead.
RethrownFirst(caught, previous) == IF previous.kind = "none" THEN caught ELSE previous

\* The error retryOperation rethrows: `throw error`, the one just caught.
Rethrown(caught, previous) == caught

\* `await new Promise(resolve => setTimeout(resolve, delayMs))`
DelayAfterFailure(delayMs, n) == delayMs

\* `return await operation()`: the endpoint answers.
InvokeReturns ==
  /\ pc = "invoke"
  /\ invocations' = invocations + 1
  /\ contacted' = contacted \cup {epIdx}
  /\ retVal' = Response(site)
  /\ pc' = "retryReturned"
  /\ UNCHANGED <<inputs, epIdx, connection, lastError, result, outcome, coarse, fine,
                 site, attempts, error, waited>>

\* operation() rejects: the catch block.
InvokeFails ==
  /\ pc = "invoke"
  /\ invocations' = invocations + 1
  /\ contacted' = contacted \cup {epIdx}
  /\ attempts' = attempts + 1
  /\ error' = Rethrown(RpcError(site, epIdx, invocations + 1), error)
  /\ pc' = IF IsLastAttempt(attempts + 1, maxRetries) THEN "retryThrew" ELSE "sleep"
  /\ UNCHANGED <<inputs, epIdx, connection, lastError, result, outcome, coarse, fine,
                 site, retVal, waited>>

\* The delay has passed: back to the head of the loop.
Sleep ==
  /\ pc = "sleep"
  /\ waited' = waited + DelayAfterFailure(retryDelay, attempts)
  /\ WhileAttempts(site, attempts, error)
  /\ UNCHANGED <<inputs, epIdx, connection, lastError, result, outcome, coarse, fine,
                 site, attempts, retVal, invocations, contacted>>

(***************************************************************************)
(* getTimestamp(programId, endpoints, options).                            *)
(***************************************************************************)
\* `lastError = error as Error`, keeping the first error instead.
CaughtErrorFirst(caught, previous) == IF previous.kind = "none" THEN caught ELSE previous

\* `lastError = error as Error`
CaughtError(caught, previous) == caught

\* The catch block of the endpoint loop: record the error, go on with the loop.
CatchInLoop(e) ==
  /\ lastError' = CaughtError(e, lastError)
  /\ pc' = "forEndpoints"
  /\ result' = Null
  /\ DropLocals

\* The endpoint loop passing over every URL that occurred earlier in the list.
NextEndpointSkipsRepeated ==
  LET fresh == {j \in (epIdx + 1)..Len(endpoints) :
                  \A k \in 1..epIdx : endpoints[k] # endpoints[j]}
  IN  /\ pc = "forEndpoints"
      /\ epIdx < Len(endpoints)
      /\ IF fresh = {}
         THEN epIdx' = Len(endpoints) /\ pc' = pc /\ connection' = connection
         ELSE /\ epIdx' = CHOOSE j \in fresh : \A k \in fresh : j <= k
              /\ connection' \in Ledgers
              /\ pc' = "validate"
      /\ UNCHANGED <<inputs, lastError, result, outcome, coarse, fine, retry, contacted>>

\* `for (const rpcUrl of endpoints)`: the next URL, `new Connection(rpcUrl)`.
NextEndpoint ==
  /\ pc = "forEndpoints"
  /\ epIdx < Len(endpoints)
  /\ epIdx' = epIdx + 1
  /\ connection' \in Ledgers
  /\ pc' = "validate"
  /\ UNCHANGED <<inputs, lastError, result, outcome, coarse, fine, retry, contacted>>

\* The throw after the loop, were the program id validated outside the loop as
\* well: an invalid id is the reason when no endpoint gave one.
ThrowAllFailedValidates ==
  /\ pc = "forEndpoints"
  /\ epIdx >= Len(endpoints)
  /\ thrown' = AllFailedError(IF lastError = NoError /\ ~isValidProgramId(programId)
                              THEN InvalidProgramIdError(epIdx)
                              ELSE lastError)
  /\ pc' = "threw"
  /\ UNCHANGED <<inputs, epIdx, connection, lastError, result, returned, coarse, fine,
                 retry, contacted>>

\* The loop is over: `throw new Error('Failed to get timestamp using all ...')`.
ThrowAllFailed ==
  /\ pc = "forEndpoints"
  /\ epIdx >= Len(endpoints)
  /\ thrown' = AllFailedError(lastError)
  /\ pc' = "threw"
  /\ UNCHANGED <<inputs, epIdx, connection, lastError, result, returned, coarse, fine,
                 retry, contacted>>

\* `if (!isValidProgramId(programId)) throw ...`, else into
\* findFirstTimestampBinarySearch up to its first remote call, getSlot.
Validate ==
  /\ pc = "validate"
  /\ IF isValidProgramId(programId)
     THEN /\ BeginRetry("getSlot")
          /\ UNCHANGED <<connection, lastError, result, coarse, fine>>
     ELSE CatchInLoop(InvalidProgramIdError(epIdx))
  /\ UNCHANGED <<inputs, epIdx, outcome, contacted>>

\* getSlot failed for good: findFirstTimestampBinarySearch rejects, the loop's
\* catch block takes the error.
CatchGetSlot ==
  /\ pc = "retryThrew"
  /\ site = "getSlot"
  /\ CatchInLoop(error)
  /\ UNCHANGED <<inputs, epIdx, outcome, contacted>>

\* `result === null`, mistaken for its opposite.
ResultIsNullInverted(r) == r # Null

\* `result === null`, never true: the check left out.
ResultIsNullNever(r) == FALSE

\* `result === null`
ResultIsNull(r) == r = Null

\* `if (result === null) throw ...; return result`
GotResult ==
  /\ pc = "gotResult"
  /\ IF ResultIsNull(result)
     THEN CatchInLoop(NoTimestampError(epIdx)) /\ returned' = returned
     ELSE /\ returned' = result
          /\ pc' = "returned"
          /\ UNCHANGED <<connection, lastError, result, coarse, fine, retry>>
  /\ UNCHANGED <<inputs, epIdx, thrown, contacted>>

(***************************************************************************)
(* findFirstTimestampBinarySearch and checkSlotForProgramTransactions.     *)
(***************************************************************************)
\* `let low = 1`, starting at the genesis block instead.
FirstSearchSlotGenesis == 1 - 1

\* `let low = 1; // Start from slot 1 (genesis is slot 0)`
FirstSearchSlot == 1

\* `const mid = Math.floor((low + high) / 2)`
Midpoint(lo, hi) == (lo + hi) \div 2

\* `high = mid - 1`, leaving a slot between the candidate and the interval.
LookEarlierByTwo(m) == m - 2

\* `high = mid - 1`, keeping mid in the interval.
LookEarlierStays(m) == m

\* `high = mid - 1; // Look earlier`
LookEarlier(m) == m - 1

\* `low = mid + 1`, keeping mid in the interval.
LookLaterStays(m) == m

\* `low = mid + 1`, one slot too far.
LookLaterSkips(m) == m + 2

\* `low = mid + 1`
LookLater(m) == m + 1

\* `foundSignaturesAtSlot.set(slot, value)` left out.
CacheSetNothing(cache, slot, value) == cache

\* `foundSignaturesAtSlot.set(slot, value)`
CacheSet(cache, slot, value) ==
  [s \in DOMAIN cache \cup {slot} |-> IF s = slot THEN value ELSE cache[s]]

\* `const hasTransactions = signatures && signatures.length > 0`
HasTransactions(signatures) == Len(signatures) > 0

\* `if (!block || !block.transactions || block.transactions.length === 0)`
NoTransactions(block) == Len(block) = 0

\* The branches of the search loop, were the slot found first kept.
NarrowKeepsFirst(hasSignatures) ==
  /\ IF hasSignatures
     THEN /\ firstProgramSlot' = IF firstProgramSlot = Null THEN mid ELSE firstProgramSlot
          /\ high' = LookEarlier(mid)
          /\ low' = low
     ELSE /\ low' = LookLater(mid)
          /\ UNCHANGED <<firstProgramSlot, high>>
  /\ pc' = "whileLowHigh"

\* `if (hasSignatures) {...} else {...}` of the search loop.
Narrow(hasSignatures) ==
  /\ IF hasSignatures
     THEN /\ firstProgramSlot' = mid
          /\ high' = LookEarlier(mid)
          /\ low' = low
     ELSE /\ low' = LookLater(mid)
          /\ UNCHANGED <<firstProgramSlot, high>>
  /\ pc' = "whileLowHigh"

\* getSlot answered: the search bounds, the empty cache.
AfterGetSlot ==
  /\ pc = "retryReturned"
  /\ site = "getSlot"
  /\ latestSlot' = retVal
  /\ low' = FirstSearchSlot
  /\ high' = retVal
  /\ firstProgramSlot' = Null
  /\ foundSignaturesAtSlot' = EmptyCache
  /\ pc' = "whileLowHigh"
  /\ UNCHANGED <<inputs, epIdx, connection, lastError, result, outcome, mid,
                 anySignature, failedProbes, fine, retry, contacted>>

\* `while (low <= high)`: the next midpoint.
SearchStep ==
  /\ pc = "whileLowHigh"
  /\ low <= high
  /\ mid' = Midpoint(low, high)
  /\ pc' = "checkSlot"
  /\ UNCHANGED <<inputs, epIdx, connection, lastError, result, outcome, latestSlot,
                 low, high, firstProgramSlot, foundSignaturesAtSlot, anySignature,
                 failedProbes, fine, retry, contacted>>

\* The loop is over with a slot: into getTimestampFromSlot(firstProgramSlot) up
\* to its getBlock.  Nothing reads the other locals of the search after this.
SearchFound ==
  /\ pc = "whileLowHigh"
  /\ low > high
  /\ firstProgramSlot # Null
  /\ BeginRetry("slotBlock")
  /\ latestSlot' = 0 /\ low' = 0 /\ high' = 0 /\ mid' = 0
  /\ foundSignaturesAtSlot' = EmptyCache
  /\ anySignature' = NoSignature
  /\ failedProbes' = {}
  /\ UNCHANGED <<inputs, epIdx, connection, lastError, result, outcome,
                 firstProgramSlot, fine, contacted>>

\* The loop is over without a slot: `return null`.
SearchNothing ==
  /\ pc = "whileLowHigh"
  /\ low > high
  /\ firstProgramSlot = Null
  /\ result' = Null
  /\ pc' = "gotResult"
  /\ UNCHANGED <<inputs, epIdx, connection, lastError, outcome, coarse, fine, retry,
                 contacted>>

\* checkSlotForProgramTransactions(mid): the cached answer, or its getBlock.
CheckSlot ==
  /\ pc = "checkSlot"
  /\ IF mid \in DOMAIN foundSignaturesAtSlot
     THEN /\ Narrow(foundSignaturesAtSlot[mid])
          /\ UNCHANGED retry
     ELSE /\ BeginRetry("probeBlock")
          /\ UNCHANGED <<low, high, firstProgramSlot>>
  /\ UNCHANGED <<inputs, epIdx, connection, lastError, result, outcome, latestSlot, mid,
                 foundSignaturesAtSlot, anySignature, failedProbes, fine, contacted>>

\* The probe, were it to ask for the program's signatures also when the block
\* has no transactions, without a `before`.
AfterProbeBlockAsksAnyway ==
  /\ pc = "retryReturned"
  /\ site = "probeBlock"
  /\ anySignature' = IF NoTransactions(retVal) THEN NoSignature ELSE retVal[1]
  /\ BeginRetry("probeSignatures")
  /\ UNCHANGED <<low, high, firstProgramSlot, foundSignaturesAtSlot>>
  /\ UNCHANGED <<inputs, epIdx, connection, lastError, result, outcome, latestSlot, mid,
                 failedProbes, fine, contacted>>

\* The block of mid: without transactions the probe answers false, else it asks
\* for the program's signatures before the block's first signature.
AfterProbeBlock ==
  /\ pc = "retryReturned"
  /\ site = "probeBlock"
  /\ IF NoTransactions(retVal)
     THEN /\ foundSignaturesAtSlot' = CacheSet(foundSignaturesAtSlot, mid, FALSE)
          /\ Narrow(FALSE)
          /\ UNCHANGED <<anySignature, retry>>
     ELSE /\ anySignature' = retVal[1]
          /\ BeginRetry("probeSignatures")
          /\ UNCHANGED <<low, high, firstProgramSlot, foundSignaturesAtSlot>>
  /\ UNCHANGED <<inputs, epIdx, connection, lastError, result, outcome, latestSlot, mid,
                 failedProbes, fine, contacted>>

\* The probe's signatures: cached, and the search narrows.
AfterProbeSignatures ==
  /\ pc = "retryReturned"
  /\ site = "probeSignatures"
  /\ foundSignaturesAtSlot' =
       CacheSet(foundSignaturesAtSlot, mid, HasTransactions(retVal))
  /\ Narrow(HasTransactions(retVal))
  /\ UNCHANGED <<inputs, epIdx, connection, lastError, result, outcome, latestSlot, mid,
                 anySignature, failedProbes, fine, retry, contacted>>

\* The search loop without its catch block: a failed probe ends the search.
CatchProbeAborts ==
  /\ pc = "retryThrew"
  /\ site \in {"probeBlock", "probeSignatures"}
  /\ result' = Null
  /\ pc' = "gotResult"
  /\ UNCHANGED <<inputs, epIdx, connection, lastError, outcome, coarse, fine, retry,
                 contacted>>

\* The catch block of the search loop, were it to cache the failed slot as
\* having no transactions.
CatchProbeCaches ==
  /\ pc = "retryThrew"
  /\ site \in {"probeBlock", "probeSignatures"}
  /\ low' = LookLater(mid)
  /\ failedProbes' = failedProbes \cup {mid}
  /\ foundSignaturesAtSlot' = CacheSet(foundSignaturesAtSlot, mid, FALSE)
  /\ pc' = "whileLowHigh"
  /\ UNCHANGED <<inputs, epIdx, connection, lastError, result, outcome, latestSlot,
                 high, mid, firstProgramSlot, anySignature, fine, retry, contacted>>

\* A call of the probe failed for good: checkSlotForProgramTransactions logs and
\* rethrows, the search loop catches and tries the next slot.
CatchProbe ==
  /\ pc = "retryThrew"
  /\ site \in {"probeBlock", "probeSignatures"}
  /\ low' = LookLater(mid)
  /\ failedProbes' = failedProbes \cup {mid}
  /\ pc' = "whileLowHigh"
  /\ UNCHANGED <<inputs, epIdx, connection, lastError, result, outcome, latestSlot,
                 high, mid, firstProgramSlot, foundSignaturesAtSlot, anySignature,
                 fine, retry, contacted>>

(***************************************************************************)
(* getTimestampFromSlot.                                                   *)
(***************************************************************************)
\* `if (batchOldestSignature.blockTime) oldestBlockTime = ...`
NewOldestBlockTime(batchOldest, previous) ==
  IF Truthy(batchOldest.blockTime) THEN batchOldest.blockTime ELSE previous

\* The block times the entries of a page carry.
BlockTimesOf(signatures) ==
  {signatures[k].blockTime : k \in 1..Len(signatures)} \ {Null}

\* `if (signatures.length < limit)`, taking a full page for the last one too.
IsLastPageInclusive(signatures, limit) == Len(signatures) <= limit

\* `if (signatures.length < limit)`: the last page.
IsLastPage(signatures, limit) == Len(signatures) < limit

\* The block of the slot found: without transactions `return null`, else the
\* pagination starts before its first signature.
AfterSlotBlock ==
  /\ pc = "retryReturned"
  /\ site = "slotBlock"
  /\ IF NoTransactions(retVal)
     THEN /\ result' = Null
          /\ pc' = "gotResult"
          /\ UNCHANGED <<fine, retry>>
     ELSE /\ oldestSignature' = retVal[1]
          /\ oldestBlockTime' = Null
          /\ observed' = {}
          /\ BeginRetry("pageSignatures")
          /\ result' = result
  /\ UNCHANGED <<inputs, epIdx, connection, lastError, outcome, coarse, contacted>>

\* One page: an empty one or one shorter than the limit ends the pagination with
\* `return oldestBlockTime` (null when none was seen), a full one asks for the
\* page before its oldest signature.
AfterPageSignatures ==
  /\ pc = "retryReturned"
  /\ site = "pageSignatures"
  /\ IF ~HasTransactions(retVal)
     THEN /\ result' = oldestBlockTime
          /\ pc' = "gotResult"
          /\ UNCHANGED <<fine, retry>>
     ELSE LET batchOldest == retVal[Len(retVal)]
              blockTime == NewOldestBlockTime(batchOldest, oldestBlockTime)
          IN  /\ oldestSignature' = batchOldest.signature
              /\ oldestBlockTime' = blockTime
              /\ observed' = observed \cup BlockTimesOf(retVal)
              /\ IF IsLastPage(retVal, PageLimit)
                 THEN /\ result' = blockTime
                      /\ pc' = "gotResult"
                      /\ UNCHANGED retry
                 ELSE /\ BeginRetry("pageSignatures")
                      /\ result' = result
  /\ UNCHANGED <<inputs, epIdx, connection, lastError, outcome, coarse, contacted>>

\* The catch block of getTimestampFromSlot, were it to return the block time
\* known so far.
CatchInSlotKeepsKnown ==
  /\ pc = "retryThrew"
  /\ site \in {"slotBlock", "pageSignatures"}
  /\ result' = oldestBlockTime
  /\ pc' = "gotResult"
  /\ UNCHANGED <<inputs, epIdx, connection, lastError, outcome, coarse, fine, retry,
                 contacted>>

\* A call of getTimestampFromSlot failed for good: its catch block logs and
\* returns null.
CatchInSlot ==
  /\ pc = "retryThrew"
  /\ site \in {"slotBlock", "pageSignatures"}
  /\ result' = Null
  /\ pc' = "gotResult"
  /\ UNCHANGED <<inputs, epIdx, connection, lastError, outcome, coarse, fine, retry,
                 contacted>>

(***************************************************************************)
(* The specification.                                                      *)
(***************************************************************************)
Next ==
  \/ NextEndpoint
  \/ ThrowAllFailed
  \/ Validate
  \/ InvokeReturns
  \/ InvokeFails
  \/ Sleep
  \/ AfterGetSlot
  \/ CatchGetSlot
  \/ SearchStep
  \/ SearchFound
  \/ SearchNothing
  \/ CheckSlot
  \/ AfterProbeBlock
  \/ AfterProbeSignatures
  \/ CatchProbe
  \/ AfterSlotBlock
  \/ AfterPageSignatures
  \/ CatchInSlot
  \/ GotResult

Spec == Init /\ [][Next]_vars

(***************************************************************************)
(* The coarse search alone, on longer ledgers: from the state in which the *)
(* first attempt of getSlot has answered on the only endpoint, to the end  *)
(* of the search loop.  A probe reads of the history only whether a        *)
(* transaction is older than a block, so one transaction at most is enough.*)
(***************************************************************************)
CoarseLedgers ==
  UNION {UNION {{[latestSlot |-> n, present |-> p, history |-> h, untimed |-> {}] :
                   h \in {<< >>} \cup {<<e>> : e \in p \cup {0}}}
                : p \in SUBSET (1..n)}
         : n \in 0..MaxCoarseSlot}

InitCoarse ==
  /\ programId = SystemProgramId
  /\ endpoints = <<1>>
  /\ maxRetries \in 1..MaxRetries
  /\ retryDelay = DefaultRetryDelay
  /\ cliOptions = NoOptions
  /\ pc = "retryReturned"
  /\ epIdx = 1
  /\ connection \in CoarseLedgers
  /\ lastError = NoError
  /\ result = Null
  /\ returned = Null
  /\ thrown = NoError
  /\ latestSlot = 0 /\ low = 0 /\ high = 0 /\ mid = 0
  /\ firstProgramSlot = Null
  /\ foundSignaturesAtSlot = EmptyCache
  /\ anySignature = NoSignature
  /\ oldestSignature = NoSignature
  /\ oldestBlockTime = Null
  /\ observed = {}
  /\ site = "getSlot" /\ attempts = 0 /\ error = NoError
  /\ retVal = connection.latestSlot
  /\ invocations = 1 /\ waited = 0
  /\ contacted = {1}
  /\ failedProbes = {}
  /\ configFile = NoFile /\ lastCall = NoCall
  /\ validations = << >>

NextCoarse ==
  \/ AfterGetSlot
  \/ SearchStep
  \/ CheckSlot
  \/ InvokeReturns
  \/ InvokeFails
  \/ Sleep
  \/ AfterProbeBlock
  \/ AfterProbeSignatures
  \/ CatchProbe

SpecCoarse == InitCoarse /\ [][NextCoarse]_vars

\* The same with the task running on: an await that can go on does so (every
\* remote call is answered or rejected, every delay passes).
FairSpecCoarse == SpecCoarse /\ WF_vars(NextCoarse)

(***************************************************************************)
(* getTimestampFromSlot alone, on longer histories: from its call by the   *)
(* search, which found firstProgramSlot, to its return.  Every block has   *)
(* transactions; the search ends with any slot whose probe answers true    *)
(* when the probes below it fail.                                          *)
(***************************************************************************)
\* What checkSlotForProgramTransactions(m) answers when its calls succeed.
ProbeAnswer(conn, m) ==
  LET block == GetBlock(conn, m)
  IN  IF NoTransactions(block) THEN FALSE
      ELSE HasTransactions(GetSignaturesForAddress(conn, block[1], ProbeLimit))

FineHistories(slots) ==
  UNION {{h \in [1..n -> slots] : \A i \in 1..(n - 1) : h[i] >= h[i + 1]}
         : n \in 0..MaxFineTxs}

FineLedgers ==
  UNION {UNION {{[latestSlot |-> n, present |-> 1..n, history |-> h, untimed |-> u] :
                   u \in SUBSET SlotsOf(h)}
                : h \in FineHistories(0..n)}
         : n \in 1..MaxFineSlot}

InitFine ==
  /\ programId = SystemProgramId
  /\ endpoints = <<1>>
  /\ maxRetries \in 1..MaxRetries
  /\ retryDelay = DefaultRetryDelay
  /\ cliOptions = NoOptions
  /\ pc = "invoke"
  /\ epIdx = 1
  /\ connection \in FineLedgers
  /\ lastError = NoError
  /\ result = Null
  /\ returned = Null
  /\ thrown = NoError
  /\ latestSlot = 0 /\ low = 0 /\ high = 0 /\ mid = 0
  /\ firstProgramSlot \in {c \in 1..connection.latestSlot : ProbeAnswer(connection, c)}
  /\ foundSignaturesAtSlot = EmptyCache
  /\ anySignature = NoSignature
  /\ oldestSignature = NoSignature
  /\ oldestBlockTime = Null
  /\ observed = {}
  /\ site = "slotBlock" /\ attempts = 0 /\ error = NoError /\ retVal = << >>
  /\ invocations = 0 /\ waited = 0
  /\ contacted = {1}
  /\ failedProbes = {}
  /\ configFile = NoFile /\ lastCall = NoCall
  /\ validations = << >>

NextFine ==
  \/ InvokeReturns
  \/ InvokeFails
  \/ Sleep
  \/ AfterSlotBlock
  \/ AfterPageSignatures
  \/ CatchInSlot

SpecFine == InitFine /\ [][NextFine]_vars

(***************************************************************************)
(* getTimestamp on a single endpoint that answers every call: no attempt   *)
(* of a remote call fails.                                                 *)
(***************************************************************************)
InitReliable ==
  /\ Init
  /\ programId = SystemProgramId
  /\ endpoints = <<1>>
  /\ maxRetries >= 1

NextReliable ==
  \/ NextEndpoint
  \/ ThrowAllFailed
  \/ Validate
  \/ InvokeReturns
  \/ AfterGetSlot
  \/ SearchStep
  \/ SearchFound
  \/ SearchNothing
  \/ CheckSlot
  \/ AfterProbeBlock
  \/ AfterProbeSignatures
  \/ AfterSlotBlock
  \/ AfterPageSignatures
  \/ GotResult

SpecReliable == InitReliable /\ [][NextReliable]_vars

(***************************************************************************)
(* isValidProgramId called on its own, as its test suite calls it: on ids  *)
(* that bs58.encode made of byte arrays of a known length, on strings the  *)
(* suite spells out, and on values that are no strings.  A value is        *)
(* [type, chars, bytes]: its JavaScript type, its characters when it is a  *)
(* string, and the length of the byte array it spells, Null when it spells *)
(* none.                                                                   *)
(***************************************************************************)
\* The byte array without its leading zero bytes.
StripZeroes(bytes) ==
  LET others == {k \in 1..Len(bytes) : bytes[k] # 0}
  IN  IF others = {} THEN << >>
      ELSE SubSeq(bytes, CHOOSE k \in others : \A j \in others : k <= j, Len(bytes))

\* The turns lo..hi of the long division of the big-endian number `bytes` by
\* 58, s the bytes of the quotient and the remainder so far.
RECURSIVE DivMod58Range(_, _, _, _)
DivMod58Range(bytes, s, lo, hi) ==
  IF lo > hi \/ s # s THEN s
  ELSE IF lo = hi
       THEN LET v == s.rem * 256 + bytes[lo]
            IN  [out |-> Append(s.out, v \div 58), rem |-> v % 58]
       ELSE LET middle == (lo + hi) \div 2
            IN  DivMod58Range(bytes, DivMod58Range(bytes, s, lo, middle), middle + 1, hi)

\* The long division of `bytes` by 58 from byte i on, rem the remainder so far.
DivMod58(bytes, i, rem) ==
  DivMod58Range(bytes, [out |-> << >>, rem |-> rem], i, Len(bytes))

\* The quotient of the big-endian number `bytes` by 58, as many bytes.
Div58(bytes, i, rem) == DivMod58(bytes, i, rem).out

\* Its remainder.
Mod58(bytes, i, rem) == DivMod58(bytes, i, rem).rem

\* The turns lo..hi of the division of a number by 58 until nothing is left of
\* it, s what is left and the digits so far.
RECURSIVE EncodeDigitsRange(_, _, _)
EncodeDigitsRange(s, lo, hi) ==
  IF lo > hi \/ s # s THEN s
  ELSE IF lo = hi
       THEN IF Len(s.left) = 0 THEN s
            ELSE [left |-> StripZeroes(Div58(s.left, 1, 0)),
                  digits |-> <<Base58Alphabet[Mod58(s.left, 1, 0) + 1]>> \o s.digits]
       ELSE LET middle == (lo + hi) \div 2
            IN  EncodeDigitsRange(EncodeDigitsRange(s, lo, middle), middle + 1, hi)

\* The base58 digits of a number without leading zero bytes; nothing is left
\* after less than two turns a byte.
EncodeDigits(bytes) ==
  EncodeDigitsRange([left |-> bytes, digits |-> << >>], 1, 2 * Len(bytes)).digits

\* bs58.encode(Buffer.from(bytes)): a "1" per leading zero byte, then the digits.
Bs58Encode(bytes) ==
  LET rest == StripZeroes(bytes)
  IN  [i \in 1..(Len(bytes) - Len(rest)) |-> "1"] \o EncodeDigits(rest)

\* Buffer.from(Array(n).fill(b)) with its first z bytes set to 0.
FilledBytes(n, z, b) == [i \in 1..n |-> IF i <= z THEN 0 ELSE b]

StringValue(chars, bytes) == [type |-> "string", chars |-> chars, bytes |-> bytes]

\* null, undefined, 123, {} and [] of the suite.
NonStrings ==
  {[type |-> t, chars |-> << >>, bytes |-> Null] :
     t \in {"null", "undefined", "number", "object", "array"}}

\* 'TokenkegQfeZyiNwAJbNbGKPFXCWuBvf9Ss623VQ5DA', the token program.
TokenProgramId ==
  <<"T","o","k","e","n","k","e","g","Q","f","e","Z","y","i","N","w","A","J",
    "b","N","b","G","K","P","F","X","C","W","u","B","v","f","9","S","s","6",
    "2","3","V","Q","5","D","A">>

\* '4pg4o382r8t63isoReVLV4GXDE7hqpdNFx4XAbAZpump', the token of the test suite.
KnownTokenAddress ==
  <<"4","p","g","4","o","3","8","2","r","8","t","6","3","i","s","o","R","e",
    "V","L","V","4","G","X","D","E","7","h","q","p","d","N","F","x","4","X",
    "A","b","A","Z","p","u","m","p">>

\* '0x1234567890abcdef'
HexadecimalId ==
  <<"0","x","1","2","3","4","5","6","7","8","9","0","a","b","c","d","e","f">>

\* The ids made by bs58.encode of arrays of 0..MaxIdBytes and of 64 bytes.
EncodedIds ==
  {StringValue(Bs58Encode(FilledBytes(n, z, b)), n) :
     n \in (0..MaxIdBytes) \cup {64}, z \in {0, 1, 31, 32}, b \in {1, 255}}

\* A string with the character at position k replaced.
ReplaceChar(chars, k, c) == [i \in 1..Len(chars) |-> IF i = k THEN c ELSE chars[i]]

\* Ids with a character outside the alphabet.
MisspelledIds ==
  {StringValue(ReplaceChar(TokenProgramId, k, c), Null) :
     k \in {1, 20, Len(TokenProgramId)}, c \in {"0", "O", "I", "l", "-", " "}}
  \cup {StringValue(HexadecimalId, Null), StringValue(InvalidAddress, Null)}

ValidationInputs ==
  EncodedIds \cup MisspelledIds \cup NonStrings
  \cup {StringValue(TokenProgramId, 32), StringValue(KnownTokenAddress, 32),
        StringValue(SystemProgramId, 32), StringValue(ShortId, 3)}

\* `if (!programId || typeof programId !== 'string') return false`, then the
\* rest of isValidProgramId on the string.
isValidProgramIdValue(v) ==
  IF v.type # "string" THEN FALSE ELSE isValidProgramId(v.chars)

InitValidate ==
  /\ programId \in ValidationInputs
  /\ endpoints = << >>
  /\ maxRetries = 0
  /\ retryDelay = DefaultRetryDelay
  /\ cliOptions = NoOptions
  /\ pc = "isValidProgramId"
  /\ epIdx = 0
  /\ connection = NoConnection
  /\ lastError = NoError
  /\ result = Null
  /\ returned = Null
  /\ thrown = NoError
  /\ latestSlot = 0 /\ low = 0 /\ high = 0 /\ mid = 0
  /\ firstProgramSlot = Null
  /\ foundSignaturesAtSlot = EmptyCache
  /\ anySignature = NoSignature
  /\ oldestSignature = NoSignature
  /\ oldestBlockTime = Null
  /\ observed = {}
  /\ site = "" /\ attempts = 0 /\ error = NoError /\ retVal = << >>
  /\ invocations = 0 /\ waited = 0
  /\ contacted = {}
  /\ failedProbes = {}
  /\ configFile = NoFile /\ lastCall = NoCall
  /\ validations = << >>

\* `expect(isValidProgramId(input))`: the call and what it returns.
CallIsValidProgramId ==
  /\ pc = "isValidProgramId"
  /\ retVal' = isValidProgramIdValue(programId)
  /\ pc' = "isValidProgramIdReturned"
  /\ UNCHANGED <<inputs, epIdx, connection, lastError, result, outcome, coarse, fine,
                 site, attempts, error, invocations, waited, contacted>>

NextValidate == CallIsValidProgramId

SpecValidate == InitValidate /\ [][NextValidate]_vars

(***************************************************************************)
(* The `get` command of src/src/index.ts: `solana-timestamp get            *)
(* <programId> [--retries N] [--retry-delay D]` on one resolved endpoint.  *)
(* cliOptions is what the command line gave, Null for an option left out.  *)
(***************************************************************************)
\* `x ?? d`
Coalesce(x, d) == IF x = Null THEN d ELSE x

\* `{ verbose: options.verbose, logger }`: the options object the action hands
\* to getTimestamp; it has no retries and no retryDelay.
OptionsOfGet(cli) == [retries |-> Null, retryDelay |-> Null]

\* The values a command line gives for --retry-delay.
CliDelays == {Null, 0, 2000}

InitCli ==
  /\ programId = SystemProgramId
  /\ endpoints = <<1>>
  /\ cliOptions \in [retries : {Null} \cup (1..MaxRetries), retryDelay : CliDelays]
  /\ maxRetries = 0
  /\ retryDelay = 0
  /\ pc = "getCommand"
  /\ epIdx = 0
  /\ connection = NoConnection
  /\ lastError = NoError
  /\ result = Null
  /\ returned = Null
  /\ thrown = NoError
  /\ latestSlot = 0 /\ low = 0 /\ high = 0 /\ mid = 0
  /\ firstProgramSlot = Null
  /\ foundSignaturesAtSlot = EmptyCache
  /\ anySignature = NoSignature
  /\ oldestSignature = NoSignature
  /\ oldestBlockTime = Null
  /\ observed = {}
  /\ site = "" /\ attempts = 0 /\ error = NoError /\ retVal = << >>
  /\ invocations = 0 /\ waited = 0
  /\ contacted = {}
  /\ failedProbes = {}
  /\ configFile = NoFile /\ lastCall = NoCall
  /\ validations = << >>

\* The action of `get` calls getTimestamp(programId, endpoints, options), which
\* reads `options?.retries ?? 3` and `options?.retryDelay ?? 1000`.
GetCommand ==
  /\ pc = "getCommand"
  /\ maxRetries' = Coalesce(OptionsOfGet(cliOptions).retries, DefaultRetries)
  /\ retryDelay' = Coalesce(OptionsOfGet(cliOptions).retryDelay, DefaultRetryDelay)
  /\ pc' = "forEndpoints"
  /\ UNCHANGED <<programId, endpoints, cliOptions, persisted, validations, epIdx,
                 connection, lastError, result, outcome, coarse, fine, retry, contacted>>

NextCli ==
  \/ GetCommand
  \/ Next

SpecCli == InitCli /\ [][NextCli]_vars

(***************************************************************************)
(* getTimestamp on endpoint lists in which a URL may occur more than once. *)
(***************************************************************************)
\* The lists that name one URL over and over, and one that comes back to its
\* first URL.
UrlLists ==
  {[i \in 1..n |-> "https://a"] : n \in 0..MaxEndpoints}
  \cup {<<"https://a", "https://b", "https://a">>}

InitUrls ==
  /\ programId \in {SystemProgramId, InvalidAddress}
  /\ endpoints \in UrlLists
  /\ maxRetries \in {1, 2}
  /\ retryDelay = DefaultRetryDelay
  /\ cliOptions = NoOptions
  /\ pc = "forEndpoints"
  /\ epIdx = 0
  /\ connection = NoConnection
  /\ lastError = NoError
  /\ result = Null
  /\ returned = Null
  /\ thrown = NoError
  /\ latestSlot = 0 /\ low = 0 /\ high = 0 /\ mid = 0
  /\ firstProgramSlot = Null
  /\ foundSignaturesAtSlot = EmptyCache
  /\ anySignature = NoSignature
  /\ oldestSignature = NoSignature
  /\ oldestBlockTime = Null
  /\ observed = {}
  /\ site = "" /\ attempts = 0 /\ error = NoError /\ retVal = << >>
  /\ invocations = 0 /\ waited = 0
  /\ contacted = {}
  /\ failedProbes = {}
  /\ configFile = NoFile /\ lastCall = NoCall
  /\ validations = << >>

SpecUrls == InitUrls /\ [][Next]_vars

(***************************************************************************)
(* The configuration of src/src/utils/config.ts: the list of RPC URLs and  *)
(* the default URL, kept in CONFIG_FILE, which every operation reads whole *)
(* and writes whole.  A URL is a number here: EmptyUrl is the empty        *)
(* string, which JavaScript takes for false, and 1, 2, ... are distinct    *)
(* non-empty strings.  Null is `undefined`.                                *)
(***************************************************************************)
MaxConfigUrls == 3
ConfigUrls == EmptyUrl..MaxConfigUrls

\* `{ rpcUrls: [] }`
EmptyConfig == [rpcUrls |-> << >>, defaultRpcUrl |-> Null]

\* getConfig: what CONFIG_FILE holds, the empty configuration when there is no
\* file.  (JSON.stringify leaves out a defaultRpcUrl that is undefined, and the
\* key is read back as undefined.)
GetConfig(file) == IF file = NoFile THEN EmptyConfig ELSE file[1]

\* `config.rpcUrls.includes(url)`
Includes(rpcUrls, url) == \E i \in 1..Len(rpcUrls) : rpcUrls[i] = url

\* `!config.defaultRpcUrl`
Falsy(url) == url = Null \/ url = EmptyUrl

\* saveConfig: writeFileSync puts `config` in the file and true is returned,
\* or it throws, the file is as it was and false is returned.
SaveConfig(config, call) ==
  \E written \in BOOLEAN :
    /\ configFile' = IF written THEN <<config>> ELSE configFile
    /\ lastCall' = [call EXCEPT !.result = written]

\* What is not the configuration.
engine == <<programId, endpoints, maxRetries, retryDelay, cliOptions, validations, pc, epIdx,
            connection, lastError, result, outcome, coarse, fine, retry, contacted>>

\* addRpcUrl, were the default set on request only: `if (setAsDefault)`.
AddedConfigDefaultOnRequest(config, url, setAsDefault) ==
  [rpcUrls |-> IF Includes(config.rpcUrls, url)
               THEN config.rpcUrls
               ELSE Append(config.rpcUrls, url),
   defaultRpcUrl |-> IF setAsDefault THEN url ELSE config.defaultRpcUrl]

\* addRpcUrl: the configuration it saves.
AddedConfig(config, url, setAsDefault) ==
  [rpcUrls |-> IF Includes(config.rpcUrls, url)
               THEN config.rpcUrls
               ELSE Append(config.rpcUrls, url),
   defaultRpcUrl |-> IF setAsDefault \/ Falsy(config.defaultRpcUrl)
                     THEN url
                     ELSE config.defaultRpcUrl]

AddRpcUrl ==
  /\ pc = "config"
  /\ \E url \in ConfigUrls, setAsDefault \in BOOLEAN :
       SaveConfig(AddedConfig(GetConfig(configFile), url, setAsDefault),
                  [op |-> "addRpcUrl", url |-> url, result |-> FALSE])
  /\ UNCHANGED engine

\* removeRpcUrl, were the default left as it is.
RemovedConfigKeepsDefault(config, url) ==
  [rpcUrls |-> SelectSeq(config.rpcUrls, LAMBDA rpcUrl : rpcUrl # url),
   defaultRpcUrl |-> config.defaultRpcUrl]

\* removeRpcUrl, were a removed default replaced by the first URL left.
RemovedConfigFirstLeft(config, url) ==
  LET rpcUrls == SelectSeq(config.rpcUrls, LAMBDA rpcUrl : rpcUrl # url)
  IN  [rpcUrls |-> rpcUrls,
       defaultRpcUrl |-> IF config.defaultRpcUrl = url
                         THEN IF Len(rpcUrls) > 0 THEN rpcUrls[1] ELSE Null
                         ELSE config.defaultRpcUrl]

\* removeRpcUrl: the configuration it saves.
RemovedConfig(config, url) ==
  LET rpcUrls == SelectSeq(config.rpcUrls, LAMBDA rpcUrl : rpcUrl # url)
  IN  [rpcUrls |-> rpcUrls,
       defaultRpcUrl |-> IF config.defaultRpcUrl = url
                         THEN IF Len(rpcUrls) > 0
                              THEN rpcUrls[Len(rpcUrls)]
                              ELSE Null
                         ELSE config.defaultRpcUrl]

RemoveRpcUrl ==
  /\ pc = "config"
  /\ \E url \in ConfigUrls :
       SaveConfig(RemovedConfig(GetConfig(configFile), url),
                  [op |-> "removeRpcUrl", url |-> url, result |-> FALSE])
  /\ UNCHANGED engine

\* setDefaultRpcUrl, were the list not looked at.
SetDefaultRpcUrlUnchecked ==
  /\ pc = "config"
  /\ \E url \in ConfigUrls :
       SaveConfig([GetConfig(configFile) EXCEPT !.defaultRpcUrl = url],
                  [op |-> "setDefaultRpcUrl", url |-> url, result |-> FALSE])
  /\ UNCHANGED engine

SetDefaultRpcUrl ==
  /\ pc = "config"
  /\ \E url \in ConfigUrls :
       LET config == GetConfig(configFile)
           call == [op |-> "setDefaultRpcUrl", url |-> url, result |-> FALSE]
       IN  IF ~Includes(config.rpcUrls, url)
           THEN /\ lastCall' = call
                /\ UNCHANGED configFile
           ELSE SaveConfig([config EXCEPT !.defaultRpcUrl = url], call)
  /\ UNCHANGED engine

InitConfig ==
  /\ programId = SystemProgramId
  /\ endpoints = << >>
  /\ maxRetries = 0
  /\ retryDelay = DefaultRetryDelay
  /\ cliOptions = NoOptions
  /\ pc = "config"
  /\ epIdx = 0
  /\ connection = NoConnection
  /\ lastError = NoError
  /\ result = Null
  /\ returned = Null
  /\ thrown = NoError
  /\ latestSlot = 0 /\ low = 0 /\ high = 0 /\ mid = 0
  /\ firstProgramSlot = Null
  /\ foundSignaturesAtSlot = EmptyCache
  /\ anySignature = NoSignature
  /\ oldestSignature = NoSignature
  /\ oldestBlockTime = Null
  /\ observed = {}
  /\ site = "" /\ attempts = 0 /\ error = NoError /\ retVal = << >>
  /\ invocations = 0 /\ waited = 0
  /\ contacted = {}
  /\ failedProbes = {}
  /\ configFile = NoFile /\ lastCall = NoCall
  /\ validations = << >>

NextConfig ==
  \/ AddRpcUrl
  \/ RemoveRpcUrl
  \/ SetDefaultRpcUrl

SpecConfig == InitConfig /\ [][NextConfig]_vars

(***************************************************************************)
(* resolveEndpoints of src/src/utils/endpointResolver.ts, which the `get`  *)
(* command calls before getTimestamp: the endpoints of the command line    *)
(* that pass validateRpcEndpoint, or else the configured URLs.             *)
(* cliOptions.endpoints is the list --endpoints gave, empty when the       *)
(* option was left out.                                                    *)
(***************************************************************************)
MaxCliEndpoints == 2

\* The lists --endpoints gives: non-empty URLs, a URL more than once.
CliEndpointLists ==
  UNION {[1..n -> 1..MaxConfigUrls] : n \in 0..MaxCliEndpoints}

\* The files the operations of config.ts leave: a list without a URL twice,
\* a default that is a URL of the list, set if the list is not empty.
ConfigFiles ==
  LET lists == {rpcUrls \in UNION {[1..n -> ConfigUrls] : n \in 0..Cardinality(ConfigUrls)} :
                  \A i, j \in 1..Len(rpcUrls) : rpcUrls[i] = rpcUrls[j] => i = j}
      defaults(rpcUrls) == IF Len(rpcUrls) = 0 THEN {Null}
                           ELSE {rpcUrls[i] : i \in 1..Len(rpcUrls)}
  IN  {NoFile} \cup
      UNION {{<<[rpcUrls |-> rpcUrls, defaultRpcUrl |-> defaultRpcUrl]>> :
                defaultRpcUrl \in defaults(rpcUrls)}
             : rpcUrls \in lists}

\* getDefaultRpcUrl: `return defaultUrl || undefined`
GetDefaultRpcUrl(file) ==
  LET defaultUrl == GetConfig(file).defaultRpcUrl
  IN  IF Falsy(defaultUrl) THEN Null ELSE defaultUrl

\* getRpcUrls
GetRpcUrls(file) == GetConfig(file).rpcUrls

\* validateRpcEndpoints from endpoint i on: the endpoints whose
\* validateRpcEndpoint did not throw are pushed in turn; passed[i] tells
\* whether the i-th did not.
RECURSIVE ValidateRpcEndpoints(_, _, _)
ValidateRpcEndpoints(given, passed, i) ==
  IF i > Len(given) THEN << >>
  ELSE (IF passed[i] THEN <<given[i]>> ELSE << >>)
         \o ValidateRpcEndpoints(given, passed, i + 1)

\* The configured branch, were the stored list put whole behind the default.
ConfiguredEndpointsRepeated(file) ==
  LET defaultRpcUrl == GetDefaultRpcUrl(file)
      configuredUrls == GetRpcUrls(file)
  IN  IF defaultRpcUrl # Null
      THEN <<defaultRpcUrl>> \o configuredUrls
      ELSE configuredUrls

\* The branch of resolveEndpoints without --endpoints: the default and the
\* other configured URLs, or the configured URLs when there is no default.
ConfiguredEndpoints(file) ==
  LET defaultRpcUrl == GetDefaultRpcUrl(file)
      configuredUrls == GetRpcUrls(file)
  IN  IF defaultRpcUrl # Null
      THEN <<defaultRpcUrl>> \o SelectSeq(configuredUrls, LAMBDA url : url # defaultRpcUrl)
      ELSE configuredUrls

\* resolveEndpoints: process.exit(1) on an empty list, else the list is
\* returned to the action of `get`.
ResolveEndpoints ==
  /\ pc = "resolveEndpoints"
  /\ \E passed \in [1..Len(cliOptions.endpoints) -> BOOLEAN] :
       LET resolved == IF Len(cliOptions.endpoints) > 0
                       THEN ValidateRpcEndpoints(cliOptions.endpoints, passed, 1)
                       ELSE ConfiguredEndpoints(configFile)
       IN  /\ validations' = passed
           /\ IF Len(resolved) = 0
              THEN pc' = "exited" /\ endpoints' = endpoints
              ELSE pc' = "getCommand" /\ endpoints' = resolved
  /\ UNCHANGED <<programId, maxRetries, retryDelay, cliOptions, persisted, epIdx,
                 connection, lastError, result, outcome, coarse, fine, retry, contacted>>

InitResolve ==
  /\ programId = SystemProgramId
  /\ endpoints = << >>
  /\ maxRetries = 0
  /\ retryDelay = 0
  /\ cliOptions \in [retries : {Null}, retryDelay : {Null}, endpoints : CliEndpointLists]
  /\ pc = "resolveEndpoints"
  /\ epIdx = 0
  /\ connection = NoConnection
  /\ lastError = NoError
  /\ result = Null
  /\ returned = Null
  /\ thrown = NoError
  /\ latestSlot = 0 /\ low = 0 /\ high = 0 /\ mid = 0
  /\ firstProgramSlot = Null
  /\ foundSignaturesAtSlot = EmptyCache
  /\ anySignature = NoSignature
  /\ oldestSignature = NoSignature
  /\ oldestBlockTime = Null
  /\ observed = {}
  /\ site = "" /\ attempts = 0 /\ error = NoError /\ retVal = << >>
  /\ invocations = 0 /\ waited = 0
  /\ contacted = {}
  /\ failedProbes = {}
  /\ configFile \in ConfigFiles /\ lastCall = NoCall
  /\ validations = << >>

NextResolve ==
  \/ ResolveEndpoints
  \/ GetCommand

SpecResolve == InitResolve /\ [][NextResolve]_vars

(***************************************************************************)
(* getTimestamp with any integer for options.retries: `options?.retries ?? *)
(* 3` takes 0 and the negative numbers as they are.                        *)
(***************************************************************************)
InitAnyRetries ==
  /\ programId \in ProgramIds
  /\ endpoints \in {e \in EndpointLists : Len(e) < MaxEndpoints}
  /\ maxRetries \in (0 - MaxShortfall)..MaxRetries
  /\ retryDelay = DefaultRetryDelay
  /\ cliOptions = NoOptions
  /\ pc = "forEndpoints"
  /\ epIdx = 0
  /\ connection = NoConnection
  /\ lastError = NoError
  /\ result = Null
  /\ returned = Null
  /\ thrown = NoError
  /\ latestSlot = 0 /\ low = 0 /\ high = 0 /\ mid = 0
  /\ firstProgramSlot = Null
  /\ foundSignaturesAtSlot = EmptyCache
  /\ anySignature = NoSignature
  /\ oldestSignature = NoSignature
  /\ oldestBlockTime = Null
  /\ observed = {}
  /\ site = "" /\ attempts = 0 /\ error = NoError /\ retVal = << >>
  /\ invocations = 0 /\ waited = 0
  /\ contacted = {}
  /\ failedProbes = {}
  /\ configFile = NoFile /\ lastCall = NoCall
  /\ validations = << >>

SpecAnyRetries == InitAnyRetries /\ [][Next]_vars

(***************************************************************************)
(* Properties.                                                             *)
(***************************************************************************)
\* The slot of the earliest transaction of the program in a ledger.
EarliestSlot(conn) == conn.history[Len(conn.history)]

\* C1: a timestamp getTimestamp returns is not later than the block time of the
\* earliest transaction of the program in the ledger of the endpoint it came
\* from, whatever the ledger and whichever attempts failed.
C1_NeverLaterThanFirst ==
  pc = "returned" =>
    /\ Len(connection.history) > 0
    /\ returned <= TimeOf(EarliestSlot(connection))

\* C2: once the search on an endpoint has yielded a timestamp, getTimestamp
\* returns that timestamp in its next step and does nothing after it; no endpoint
\* after that one in the list has been sent a remote call.
C2_FirstSuccessReturned ==
  /\ [][/\ (pc = "gotResult" /\ result # Null) =>
             (pc' = "returned" /\ returned' = result /\ epIdx' = epIdx)
        /\ pc # "returned"]_vars
  /\ [](pc = "returned" => \A i \in contacted : i <= epIdx)

\* An endpoint failed, a later one yielded the timestamp returned, and the list
\* goes on after it.
C2_Witness ==
  /\ pc = "returned"
  /\ epIdx = 2
  /\ Len(endpoints) = 3
  /\ lastError.kind = "rpc"
  /\ contacted = {1, 2}

\* C3: with an invalid program id getTimestamp fails on the first endpoint: it
\* never goes on to a second endpoint, and what it throws is the invalid-id
\* error, not the all-endpoints failure.
C3_InvalidIdFailsFast ==
  (programId \in InvalidProgramIds /\ Len(endpoints) > 0) =>
    /\ epIdx <= 1
    /\ pc = "threw" => thrown.kind = "invalidProgramId"

\* C4: with an invalid program id getTimestamp never returns and no endpoint is
\* sent a remote call; it is at the loop head, where there is a next endpoint
\* to take or else the throw is due, or at the validation, which fails and
\* leads back to the loop head, or it has thrown.
C4_InvalidIdNoRemoteCall ==
  programId \in InvalidProgramIds =>
    /\ contacted = {}
    /\ invocations = 0
    /\ pc \in {"forEndpoints", "validate", "threw"}
    /\ returned = Null
    /\ pc = "forEndpoints" => (epIdx < Len(endpoints) \/ ENABLED ThrowAllFailed)
    /\ pc = "threw" => thrown.kind = "allFailed"

\* getTimestamp has thrown for an invalid id after going through two endpoints.
C4_Witness ==
  /\ pc = "threw"
  /\ programId = InvalidAddress
  /\ epIdx = 2
  /\ contacted = {}

\* C5: when the loop is over without a timestamp, every endpoint was tried and
\* the error thrown carries the error caught last, which was raised on the last
\* endpoint of the list; when that is an RPC error it is the one of the final
\* attempt of that endpoint's getSlot.
C5_LastEndpointsError ==
  (pc = "threw" /\ Len(endpoints) > 0) =>
    /\ epIdx = Len(endpoints)
    /\ thrown.kind = "allFailed"
    /\ thrown.cause = lastError
    /\ thrown.cause.ep = Len(endpoints)
    /\ thrown.cause.kind \in {"rpc", "failedAfter", "invalidProgramId", "noTimestamp"}
    /\ thrown.cause.kind = "rpc" =>
         thrown.cause = RpcError("getSlot", Len(endpoints), maxRetries)

\* Both endpoints of a list of two failed, the first for lack of a timestamp, the
\* second at getSlot, and the error thrown carries the second's RPC error.
C5_Witness ==
  /\ pc = "threw"
  /\ Len(endpoints) = 2
  /\ maxRetries = 2
  /\ contacted = {1, 2}
  /\ thrown.cause = RpcError("getSlot", 2, 2)

\* C6: whenever a remote call of an endpoint's search has used up its attempts,
\* the attempt on that endpoint is over: the loop goes on to the next endpoint,
\* at once or through the 'no timestamp' result.
C6_ExhaustionEndsAttempt ==
  [][pc = "retryThrew" =>
       (pc' = "forEndpoints" \/ (pc' = "gotResult" /\ result' = Null))]_vars

\* C6 as amended: a getSlot that has used up its attempts hands its error to the
\* endpoint loop, which goes on; a call of getTimestampFromSlot that has used up
\* its attempts makes the result null, which the loop takes for 'no timestamp'
\* and goes on; a call of a probe that has used up its attempts does not end the
\* attempt: the search goes on, on the same endpoint, above the slot probed.
C6_ExhaustionByStage ==
  /\ [][pc = "retryThrew" =>
          CASE site = "getSlot" ->
                 pc' = "forEndpoints" /\ lastError' = error
            [] site \in {"slotBlock", "pageSignatures"} ->
                 pc' = "gotResult" /\ result' = Null /\ epIdx' = epIdx
            [] site \in {"probeBlock", "probeSignatures"} ->
                 /\ pc' = "whileLowHigh"
                 /\ low' = mid + 1
                 /\ epIdx' = epIdx /\ connection' = connection
                 /\ UNCHANGED <<high, firstProgramSlot, lastError>>]_vars
  /\ [][(pc = "gotResult" /\ result = Null) => pc' = "forEndpoints"]_vars

\* A probe's getSignaturesForAddress has failed twice, the attempts allowed.
C6_Witness ==
  /\ pc = "retryThrew"
  /\ site = "probeSignatures"
  /\ maxRetries = 2
  /\ invocations = 2

\* C7: a search that ends without a timestamp makes the loop record the
\* 'no timestamp' error and go on; what getTimestamp returns is a number, never
\* null, and it comes from an endpoint whose ledger has transactions of the
\* program; when it throws it has returned nothing.
C7_NotFoundFailsOver ==
  /\ [][(pc = "gotResult" /\ result = Null) =>
          (pc' = "forEndpoints" /\ lastError' = NoTimestampError(epIdx))]_vars
  /\ [](pc = "returned" =>
          /\ returned \in Nat
          /\ returned = result
          /\ Len(connection.history) > 0)
  /\ [](pc = "threw" => returned = Null)

\* The only endpoint serves a ledger without any transaction of the program,
\* and getTimestamp has thrown with the 'no timestamp' error.
C7_Witness ==
  /\ pc = "threw"
  /\ Len(endpoints) = 1
  /\ contacted = {1}
  /\ thrown.cause = NoTimestampError(1)

C9_FinalErrorRethrown ==
  (maxRetries >= 1 /\ pc = "retryThrew") =>
    error = RpcError(site, epIdx, maxRetries)

\* A page request failed twice and retryOperation threw the second error.
C9_Witness ==
  /\ pc = "retryThrew"
  /\ site = "pageSignatures"
  /\ maxRetries = 2
  /\ error.attempt = 2

\* The search loop is over.
SearchOver == pc = "whileLowHigh" /\ low > high

\* C10: when no probe failed and the probes answer true exactly from a slot H of
\* 1..latestSlot on, the search ends with H; when they answer true for no slot
\* of 1..latestSlot, it ends with no slot.
C10_LeftmostOnMonotone ==
  (SearchOver /\ failedProbes = {}) =>
    /\ \A H \in 1..latestSlot :
         (\A m \in 1..latestSlot : ProbeAnswer(connection, m) <=> m >= H)
           => firstProgramSlot = H
    /\ (\A m \in 1..latestSlot : ~ProbeAnswer(connection, m))
           => firstProgramSlot = Null

\* On a ledger of 5 slots whose probes answer true exactly from slot 3 on, the
\* search has ended with slot 3 without a failed probe.
C10_Witness ==
  /\ SearchOver
  /\ failedProbes = {}
  /\ latestSlot = 5
  /\ \A m \in 1..5 : ProbeAnswer(connection, m) <=> m >= 3
  /\ firstProgramSlot = 3

\* C11: a slot the search ends with is not above any slot of 1..latestSlot whose
\* probe would answer true, also when blocks are absent or probes failed.
C11_LeftmostMatch ==
  (SearchOver /\ firstProgramSlot # Null) =>
    \A m \in 1..latestSlot : ProbeAnswer(connection, m) => firstProgramSlot <= m

\* C12: the timestamp getTimestampFromSlot returns is not above any block time
\* carried by an entry of a page it fetched, also when the oldest entry of a
\* page carries none.
C12_BelowAllObserved ==
  (pc = "gotResult" /\ result # Null) => \A t \in observed : result <= t

\* C13: on a single endpoint that answers every call, when the program's
\* history is shorter than a page and its oldest entry carries a block time,
\* the search on that endpoint yields that block time.  Stated for the
\* histories that begin after the genesis block.
C13_ReliableReturnsOldest ==
  (/\ pc = "gotResult"
   /\ Len(connection.history) >= 1
   /\ EarliestSlot(connection) >= 1
   /\ Len(connection.history) < PageLimit
   /\ EarliestSlot(connection) \notin connection.untimed)
    => result = TimeOf(EarliestSlot(connection))

\* C14: when the search loop ends without a slot on an endpoint that answers
\* every call, the program's history is still paged through, from its newest
\* entry on, so that a history whose entries all carry a block time yields a
\* timestamp on that endpoint.
C14_NoCandidatePagesFromTip ==
  (/\ pc = "gotResult"
   /\ firstProgramSlot = Null
   /\ connection.latestSlot >= 1
   /\ Len(connection.history) >= 1
   /\ connection.untimed = {})
    => /\ result # Null
       /\ observed # {}

C17_CliRetryOptions ==
  LET n == Coalesce(cliOptions.retries, DefaultRetries)
      d == Coalesce(cliOptions.retryDelay, DefaultRetryDelay)
  IN  pc \in {"invoke", "sleep", "retryReturned", "retryThrew"} =>
        /\ invocations <= n
        /\ pc = "retryThrew" => (invocations = n /\ waited = (n - 1) * d)

\* C18: the position in the endpoint list starts at 0 and changes only by the
\* loop taking the next URL, one position further, also when that URL occurred
\* before; remote calls go to the endpoint of the current position only; the
\* loop has taken every position when getTimestamp throws and none beyond the
\* one that answered when it returns; after the return or the throw no step is
\* taken.
C18_EndpointsInOrder ==
  /\ [][/\ epIdx' \in {epIdx, epIdx + 1}
        /\ epIdx' = epIdx + 1 =>
             (pc = "forEndpoints" /\ pc' = "validate" /\ contacted' = contacted)
        /\ contacted' \subseteq contacted \cup {epIdx}
        /\ pc \notin {"returned", "threw"}]_vars
  /\ [](/\ epIdx \in 0..Len(endpoints)
        /\ contacted \subseteq 1..epIdx
        /\ pc = "threw" => epIdx = Len(endpoints)
        /\ pc = "validate" => epIdx >= 1)

\* The list is the same URL three times; the first two attempts failed at
\* getSlot and the third has been sent a call.
C18_Witness ==
  /\ endpoints = <<"https://a", "https://a", "https://a">>
  /\ epIdx = 3
  /\ contacted = {1, 2, 3}
  /\ maxRetries = 1
  /\ lastError = RpcError("getSlot", 2, 1)

\* floor(log2(n)) + 1 for n >= 1, and 0 for n = 0.
RECURSIVE BitLength(_)
BitLength(n) == IF n = 0 THEN 0 ELSE 1 + BitLength(n \div 2)

\* The slots the search has probed: those whose answer it cached and those
\* whose probe it caught failing.
ProbedSlots == DOMAIN foundSignaturesAtSlot \cup failedProbes

\* C19: whatever the probes answer and whichever fail, every turn of the search
\* loop leaves an interval [low, high] shorter than it found, the loop has
\* probed at most floor(log2(latestSlot)) + 1 slots, and it ends with
\* low > high.
C19_SearchTerminates ==
  /\ [][(pc \in {"checkSlot", "retryReturned", "retryThrew"} /\ pc' = "whileLowHigh"
          /\ site # "getSlot")
         => (low <= mid /\ mid <= high /\ high' - low' < high - low)]_vars
  /\ [](latestSlot >= 1 => Cardinality(ProbedSlots) <= BitLength(latestSlot))
  /\ <>SearchOver

\* On a ledger of 4 slots the search is over after 3 probes, the most there
\* can be, one of which failed.
C19_Witness ==
  /\ SearchOver
  /\ latestSlot = 4
  /\ Cardinality(ProbedSlots) = 3
  /\ failedProbes # {}

\* The task is inside a call of retryOperation.
InRetry == pc \in {"invoke", "sleep", "retryReturned", "retryThrew"}

\* C20: a slot the search probes lies in [low, high], which lies in
\* 1..latestSlot, and so does the slot whose block getTimestampFromSlot
\* fetches: the block of slot 0 and blocks above the latest slot are never
\* asked for.  With a latest slot of 0 the loop ends at once without a probe
\* and the endpoint's result is null, the last remote call being getSlot.
C20_ProbesWithinBounds ==
  /\ (pc = "checkSlot" \/ (InRetry /\ site \in {"probeBlock", "probeSignatures"})) =>
       (1 <= low /\ low <= mid /\ mid <= high /\ high <= latestSlot
        /\ latestSlot = connection.latestSlot)
  /\ (InRetry /\ site = "slotBlock") => firstProgramSlot \in 1..connection.latestSlot
  /\ pc = "whileLowHigh" =>
       /\ ProbedSlots \subseteq 1..latestSlot
       /\ low >= 1 /\ high <= latestSlot
       /\ latestSlot = 0 => (low > high /\ firstProgramSlot = Null)
  /\ (pc = "gotResult" /\ connection.latestSlot = 0) =>
       (result = Null /\ site = "getSlot" /\ ProbedSlots = {})

\* The endpoint reported a latest slot of 0 and its result is null after its
\* getSlot alone.
C20_Witness ==
  /\ pc = "gotResult"
  /\ connection.latestSlot = 0
  /\ Len(connection.history) > 0
  /\ site = "getSlot"
  /\ result = Null

\* C21: when a call of the probe of mid has used up its attempts, the search
\* goes on, on the same endpoint: low becomes mid + 1; high, the slot found so
\* far, the cache and the error of the endpoint loop stay as they are, and the
\* cache has no entry for mid; the loop then takes the midpoint of what is
\* left, or is over when nothing is left.
C21_FailedProbeMovesUp ==
  /\ [][(pc = "retryThrew" /\ site \in {"probeBlock", "probeSignatures"}) =>
          /\ pc' = "whileLowHigh"
          /\ low' = mid + 1
          /\ UNCHANGED <<high, firstProgramSlot, foundSignaturesAtSlot, epIdx,
                         connection, lastError, result, outcome>>
          /\ mid \notin DOMAIN foundSignaturesAtSlot']_vars
  /\ [][(pc = "whileLowHigh" /\ low <= high) =>
          /\ pc' = "checkSlot"
          /\ mid' = (low + high) \div 2
          /\ UNCHANGED <<low, high, firstProgramSlot, epIdx, connection>>]_vars
  /\ [](failedProbes \cap DOMAIN foundSignaturesAtSlot = {})

\* On a ledger of 5 slots slot 3 was found, the probe of slot 1 then failed,
\* and the search goes on with slot 2.
C21_Witness ==
  /\ pc = "checkSlot"
  /\ latestSlot = 5
  /\ firstProgramSlot = 3
  /\ failedProbes = {1}
  /\ DOMAIN foundSignaturesAtSlot = {3}
  /\ low = 2 /\ mid = 2 /\ high = 2

\* C22: getBlock answers without transactions exactly for the slots whose block
\* is absent or empty; the probe then caches false for mid and answers false
\* without starting another remote call, and the search sets low = mid + 1 and
\* leaves high and the slot found so far as they are.  The probe's
\* getSignaturesForAddress is only ever under way for a slot whose block has
\* transactions, before that block's first signature.
C22_EmptyBlockMovesUp ==
  /\ [][(pc = "retryReturned" /\ site = "probeBlock" /\ mid \notin connection.present) =>
          /\ pc' = "whileLowHigh"
          /\ foundSignaturesAtSlot' =
               [s \in DOMAIN foundSignaturesAtSlot \cup {mid} |->
                  IF s = mid THEN FALSE ELSE foundSignaturesAtSlot[s]]
          /\ low' = mid + 1
          /\ UNCHANGED <<high, firstProgramSlot, retry, contacted, epIdx, connection>>]_vars
  /\ []((pc = "retryReturned" /\ site = "probeBlock") =>
          (Len(retVal) = 0 <=> mid \notin connection.present))
  /\ []((InRetry /\ site = "probeSignatures") =>
          (mid \in connection.present /\ anySignature = <<"blk", mid>>))

\* On a ledger of 5 slots slot 3 was found, then slot 1 had no block: the cache
\* holds false for it after its getBlock alone, and slot 2 is left to probe.
C22_Witness ==
  /\ pc = "whileLowHigh"
  /\ latestSlot = 5
  /\ 1 \notin connection.present
  /\ firstProgramSlot = 3
  /\ DOMAIN foundSignaturesAtSlot = {1, 3}
  /\ ~foundSignaturesAtSlot[1]
  /\ site = "probeBlock"
  /\ low = 2 /\ high = 2

\* The slots whose probe answered true in this search.
PositiveSlots == {m \in DOMAIN foundSignaturesAtSlot : foundSignaturesAtSlot[m]}

\* C23: a probe of mid that answers true makes mid the slot found and sets
\* high = mid - 1; the slot found changes only to a smaller slot; and at every
\* moment of the search, its end included, the slot found is the smallest slot
\* whose probe answered true, or none when no probe did.
C23_CandidatesDecrease ==
  /\ [][(pc = "retryReturned" /\ site = "probeSignatures" /\ Len(retVal) > 0) =>
          /\ firstProgramSlot' = mid
          /\ high' = mid - 1
          /\ low' = low
          /\ foundSignaturesAtSlot'[mid]]_vars
  /\ [][firstProgramSlot' # firstProgramSlot =>
          /\ firstProgramSlot' # Null
          /\ firstProgramSlot # Null => firstProgramSlot' < firstProgramSlot]_vars
  /\ [](IF PositiveSlots = {} THEN firstProgramSlot = Null
        ELSE /\ firstProgramSlot \in PositiveSlots
             /\ \A m \in PositiveSlots : firstProgramSlot <= m)

\* On a ledger of 5 slots the probes of slots 3 and 2 answered true, in that
\* order, and the search is over with slot 2.
C23_Witness ==
  /\ SearchOver
  /\ latestSlot = 5
  /\ PositiveSlots = {2, 3}
  /\ firstProgramSlot = 2

\* A call of retryOperation begins in this step.
CallBegins == pc \notin {"invoke", "sleep"} /\ pc' \in {"invoke", "retryThrew"}

\* C24: on one endpoint the remote calls come in this order.  getSlot is the
\* first call, begun right after the validation.  A getBlock of the search is
\* begun from the loop, after getSlot or an earlier probe.  A probe's
\* getSignaturesForAddress is begun only when the getBlock of the same slot has
\* just answered with transactions, before that block's first signature, and
\* is answered with one entry at most.  The getBlock of getTimestampFromSlot is
\* begun only when the loop is over with a slot found, and a page request only
\* after that getBlock or an earlier page, answered with a page's worth of the
\* entries before oldestSignature.  The call under way changes only when a call
\* begins or the endpoint is given up, so no probe follows a page request.
C24_CallOrder ==
  /\ [][CallBegins =>
          CASE site' = "getSlot" -> pc = "validate" /\ site = ""
            [] site' = "probeBlock" ->
                 /\ pc = "checkSlot"
                 /\ site \in {"getSlot", "probeBlock", "probeSignatures"}
                 /\ latestSlot = connection.latestSlot
            [] site' = "probeSignatures" ->
                 /\ pc = "retryReturned" /\ site = "probeBlock"
                 /\ Len(retVal) > 0
                 /\ mid \in connection.present
                 /\ retVal[1] = <<"blk", mid>>
                 /\ anySignature' = retVal[1]
                 /\ mid' = mid
            [] site' = "slotBlock" ->
                 /\ pc = "whileLowHigh" /\ low > high
                 /\ firstProgramSlot # Null
                 /\ site \in {"probeBlock", "probeSignatures"}
            [] site' = "pageSignatures" ->
                 /\ pc = "retryReturned"
                 /\ site \in {"slotBlock", "pageSignatures"}
                 /\ Len(retVal) > 0
            [] OTHER -> FALSE]_vars
  /\ [][site' # site => (CallBegins \/ (site' = "" /\ pc' = "forEndpoints"))]_vars
  /\ [](pc = "retryReturned" =>
          CASE site = "probeSignatures" ->
                 /\ retVal = GetSignaturesForAddress(connection, <<"blk", mid>>, 1)
                 /\ Len(retVal) <= 1
            [] site = "pageSignatures" ->
                 /\ retVal = GetSignaturesForAddress(connection, oldestSignature, PageLimit)
                 /\ Len(retVal) <= PageLimit
            [] OTHER -> TRUE)

\* On the second endpoint of the list the search found a slot, the first page
\* came back full and the request for the second page is under way.
C24_Witness ==
  /\ pc = "invoke"
  /\ site = "pageSignatures"
  /\ epIdx = 2
  /\ oldestSignature[1] = "tx"
  /\ firstProgramSlot # Null

\* The slot the search loop ends with on a ledger whose probes all answer,
\* from the interval [lo, hi] and the slot found so far.
RECURSIVE SearchOn(_, _, _, _)
SearchOn(conn, lo, hi, found) ==
  IF lo > hi THEN found
  ELSE LET m == Midpoint(lo, hi)
       IN  IF ProbeAnswer(conn, m)
           THEN SearchOn(conn, lo, LookEarlier(m), m)
           ELSE SearchOn(conn, LookLater(m), hi, found)

\* The search loop is running: at its head, at a probe or inside a probe's call.
InSearch ==
  \/ pc \in {"whileLowHigh", "checkSlot"}
  \/ InRetry /\ site \in {"probeBlock", "probeSignatures"}

\* C25: every turn of the endpoint loop starts with the locals of the search,
\* of the pagination and of retryOperation as they are at the very start; when
\* getSlot has answered, the search starts with low = 1, high = the latest slot
\* of this endpoint, no slot found and an empty cache.  What the search holds
\* comes from the ledger of the current endpoint alone: every cache entry is
\* the answer this ledger gives for that slot, the slot found is one this
\* ledger answers true for, and when no probe failed the search ends with the
\* slot the search ends with on this ledger whatever came before; an error
\* inside retryOperation was raised on the current endpoint; and a result that
\* is a timestamp is a block time of this ledger's history.
C25_AttemptFromScratch ==
  /\ [](pc \in {"forEndpoints", "validate"} =>
          /\ latestSlot = 0 /\ low = 0 /\ high = 0 /\ mid = 0
          /\ firstProgramSlot = Null
          /\ foundSignaturesAtSlot = EmptyCache
          /\ failedProbes = {}
          /\ anySignature = NoSignature
          /\ oldestSignature = NoSignature
          /\ oldestBlockTime = Null
          /\ result = Null
          /\ site = "" /\ attempts = 0 /\ invocations = 0 /\ error = NoError)
  /\ [][(pc = "retryReturned" /\ site = "getSlot") =>
          /\ low' = 1
          /\ high' = connection.latestSlot
          /\ latestSlot' = connection.latestSlot
          /\ firstProgramSlot' = Null
          /\ foundSignaturesAtSlot' = EmptyCache
          /\ failedProbes' = {}]_vars
  /\ [](InSearch =>
          /\ latestSlot = connection.latestSlot
          /\ \A m \in DOMAIN foundSignaturesAtSlot :
               /\ m \in 1..connection.latestSlot
               /\ foundSignaturesAtSlot[m] = ProbeAnswer(connection, m)
          /\ firstProgramSlot # Null => ProbeAnswer(connection, firstProgramSlot))
  /\ []((SearchOver /\ failedProbes = {}) =>
          firstProgramSlot = SearchOn(connection, 1, connection.latestSlot, Null))
  /\ []((InRetry /\ error.kind # "none") => error.ep = epIdx)
  /\ []((pc = "gotResult" /\ result # Null) =>
          \E i \in 1..Len(connection.history) :
             result = BlockTime(connection, connection.history[i]))

\* The first endpoint ended without a timestamp; on the second the search is
\* over with a slot found and no failed probe.
C25_Witness ==
  /\ SearchOver
  /\ epIdx = 2
  /\ lastError = NoTimestampError(1)
  /\ firstProgramSlot = 2
  /\ failedProbes = {}
  /\ DOMAIN foundSignaturesAtSlot = {1, 2}

\* C26: a page with entries makes oldestBlockTime the block time of its last
\* entry when that entry carries one and leaves it as it is otherwise; and
\* what getTimestampFromSlot returns is the oldestBlockTime it holds at that
\* moment, so that it returns null only when the last entry of no page it
\* received carried a block time.
C26_LastKnownReturned ==
  /\ [][(pc = "retryReturned" /\ site = "pageSignatures" /\ Len(retVal) > 0) =>
          oldestBlockTime' =
            IF retVal[Len(retVal)].blockTime # Null
            THEN retVal[Len(retVal)].blockTime
            ELSE oldestBlockTime]_vars
  /\ []((pc = "gotResult" /\ site \in {"slotBlock", "pageSignatures"}) =>
          result = oldestBlockTime)

\* C27: the pagination starts before the first signature of the block of the
\* slot found; a page of exactly the limit is followed by the request for the
\* entries before its last entry's signature; a page that is empty or shorter
\* ends the pagination, after which nothing more is asked; and a page is what
\* the endpoint holds before the cursor, up to the limit.
C27_PaginationCursor ==
  /\ [][(pc = "retryReturned" /\ site = "slotBlock" /\ Len(retVal) > 0) =>
          /\ retVal[1] = <<"blk", firstProgramSlot>>
          /\ oldestSignature' = retVal[1]
          /\ pc' = "invoke" /\ site' = "pageSignatures" /\ invocations' = 0]_vars
  /\ [][(pc = "retryReturned" /\ site = "pageSignatures") =>
          IF Len(retVal) = PageLimit
          THEN /\ oldestSignature' = retVal[Len(retVal)].signature
               /\ pc' = "invoke" /\ site' = "pageSignatures" /\ invocations' = 0
          ELSE /\ pc' = "gotResult"
               /\ invocations' = invocations]_vars
  /\ [][pc # "gotResult"]_vars
  /\ []((pc = "retryReturned" /\ site = "pageSignatures") =>
          /\ Len(retVal) <= PageLimit
          /\ retVal = GetSignaturesForAddress(connection, oldestSignature, PageLimit))

\* Two full pages were followed by an empty one, asked for before the last
\* entry of the second, and the pagination is over.
C27_Witness ==
  /\ pc = "gotResult"
  /\ site = "pageSignatures"
  /\ oldestSignature = <<"tx", 2 * PageLimit>>
  /\ retVal = << >>
  /\ result # Null

\* getTimestamp has returned or thrown.
Terminated == pc \in {"returned", "threw"}

\* The steps a call of retryOperation can still take, its last included: two
\* for every attempt left, a failure and a delay.
CallRank ==
  CASE pc = "invoke" -> 2 * (maxRetries - attempts) + 1
    [] pc = "sleep" -> 2 * (maxRetries - attempts) + 2
    [] OTHER -> 1

\* More than the steps of one call of retryOperation.
CallWeight == 2 * maxRetries + 2

\* The steps of one turn of the search loop: the midpoint, the probe and its
\* two calls.
ProbeWeight == 2 * CallWeight + 2

\* The number of slots of [low, high].
Width == IF high >= low THEN high - low + 1 ELSE 0

\* More than the steps of getTimestampFromSlot on a history of n entries: its
\* getBlock and a page request for every entry and one more.
FineWeight(n) == (n + 2) * CallWeight + 1

\* The steps the current turn of the endpoint loop can still take.
AttemptRank ==
  LET fineWeight == FineWeight(Len(connection.history))
      rest == (Width - 1) * ProbeWeight + fineWeight + 1
  IN  CASE pc = "validate" ->
             connection.latestSlot * ProbeWeight + fineWeight + 1 + CallWeight
        [] pc = "gotResult" -> 1
        [] pc = "whileLowHigh" -> Width * ProbeWeight + fineWeight + 1
        [] pc = "checkSlot" -> rest + 2 * CallWeight + 1
        [] InRetry /\ site = "getSlot" ->
             connection.latestSlot * ProbeWeight + fineWeight + 1 + CallRank
        [] InRetry /\ site = "probeBlock" -> rest + CallWeight + CallRank
        [] InRetry /\ site = "probeSignatures" -> rest + CallRank
        [] InRetry /\ site = "slotBlock" ->
             1 + (Len(connection.history) + 1) * CallWeight + CallRank
        [] InRetry /\ site = "pageSignatures" ->
             1 + Cardinality(OlderThan(connection, oldestSignature)) * CallWeight
               + CallRank

\* More than the steps of one turn of the endpoint loop on any ledger.
AttemptWeight == MaxSlot * ProbeWeight + FineWeight(MaxTxs) + CallWeight + 2

\* The steps getTimestamp can still take: 0 when it has returned or thrown,
\* else the turns of the endpoint loop to come and what is left of this one.
Rank ==
  CASE Terminated -> 0
    [] pc = "forEndpoints" -> (Len(endpoints) - epIdx) * AttemptWeight + 1
    [] OTHER -> (Len(endpoints) - epIdx) * AttemptWeight + 1 + AttemptRank

\* A step can be taken from here.  (At the loop head there is a URL to take or
\* the throw is due; the validation has both its branches.)
StepPossible ==
  CASE pc = "forEndpoints" -> epIdx < Len(endpoints) \/ ENABLED ThrowAllFailed
    [] pc = "validate" -> TRUE
    [] OTHER ->
         ENABLED (\/ InvokeReturns \/ Sleep \/ AfterGetSlot \/ CatchGetSlot
                  \/ SearchStep \/ SearchFound \/ SearchNothing \/ CheckSlot
                  \/ AfterProbeBlock \/ AfterProbeSignatures \/ CatchProbe
                  \/ AfterSlotBlock \/ AfterPageSignatures \/ CatchInSlot
                  \/ GotResult)

\* C28: with maxRetries >= 1, whatever the ledgers and whichever attempts
\* fail, getTimestamp returns or throws after finitely many steps: every step
\* lowers a natural number that is 0 exactly when it has returned or thrown,
\* and until then a step can always be taken.  No call of retryOperation
\* invokes its operation more than maxRetries times.
C28_Terminates ==
  /\ [][maxRetries >= 1 => Rank' < Rank]_vars
  /\ [](maxRetries >= 1 => Rank \in Nat /\ (Rank = 0 <=> Terminated))
  /\ [](maxRetries >= 1 => Terminated \/ StepPossible)
  /\ [](invocations <= maxRetries)

\* getTimestamp has returned on the third endpoint of the list, whose last
\* call was answered at its second attempt, after the first two were given up.
C28_Witness ==
  /\ pc = "returned"
  /\ epIdx = 3
  /\ maxRetries = 2
  /\ invocations = 2
  /\ lastError.ep = 2

\* C29: whatever addRpcUrl, removeRpcUrl and setDefaultRpcUrl calls were made
\* on a configuration that began empty, and whichever of their writes failed,
\* a default RPC URL that is set is one of the URLs of the list.
C29_DefaultIsConfigured ==
  LET config == GetConfig(configFile)
  IN  config.defaultRpcUrl # Null =>
        Includes(config.rpcUrls, config.defaultRpcUrl)

\* The default URL has just been removed from a list of three, and the last of
\* the two URLs left is the default now.
C29_Witness ==
  /\ lastCall = [op |-> "removeRpcUrl", url |-> 1, result |-> TRUE]
  /\ configFile = <<[rpcUrls |-> <<3, 2>>, defaultRpcUrl |-> 2]>>

\* C30 as stated: setDefaultRpcUrl(url) for a URL that is not in the list
\* returns false and leaves the file as it is; for a URL of the list it makes
\* that URL the default and leaves the list as it is.
C30_SetDefaultAlwaysSets ==
  [][lastCall'.op = "setDefaultRpcUrl" =>
       LET config == GetConfig(configFile)
           saved == GetConfig(configFile')
       IN  IF ~Includes(config.rpcUrls, lastCall'.url)
           THEN ~lastCall'.result /\ configFile' = configFile
           ELSE /\ saved.defaultRpcUrl = lastCall'.url
                /\ saved.rpcUrls = config.rpcUrls]_vars

\* C30: setDefaultRpcUrl(url) for a URL that is not in the list returns false
\* and leaves the file as it is.  For a URL of the list it returns what
\* saveConfig returns: true when the file was written, and then that URL is
\* the default and the list is as it was; false when the write failed, and
\* then the file, list and default, is as it was.
C30_SetDefaultChecked ==
  [][lastCall'.op = "setDefaultRpcUrl" =>
       LET config == GetConfig(configFile)
           saved == GetConfig(configFile')
       IN  IF ~Includes(config.rpcUrls, lastCall'.url)
           THEN ~lastCall'.result /\ configFile' = configFile
           ELSE IF lastCall'.result
                THEN /\ saved.defaultRpcUrl = lastCall'.url
                     /\ saved.rpcUrls = config.rpcUrls
                ELSE configFile' = configFile]_vars

\* setDefaultRpcUrl has returned false for the second URL of a list of two,
\* whose default is still the first.
C30_Witness ==
  /\ lastCall = [op |-> "setDefaultRpcUrl", url |-> 2, result |-> FALSE]
  /\ configFile = <<[rpcUrls |-> <<1, 2>>, defaultRpcUrl |-> 1]>>

\* The positions of rpcUrls that hold another URL than url.
KeptPositions(rpcUrls, url) == {k \in 1..Len(rpcUrls) : rpcUrls[k] # url}

IsSubsequenceAt(seq, from, positions) ==
  /\ Len(seq) = Cardinality(positions)
  /\ \A k \in positions : seq[Cardinality({j \in positions : j <= k})] = from[k]

\* C32: with --endpoints, resolveEndpoints hands over exactly the endpoints
\* given whose validation passed, in the order given, whatever is configured;
\* without, the configured default and then the other configured URLs in
\* their stored order, the default once (the configured URLs being non-empty
\* strings; a default that is the empty string counts as none and the stored
\* list is handed over as it is).  It exits instead of handing over an empty
\* list, and `get` passes the list to getTimestamp unchanged.
C32_ResolvedOrder ==
  /\ [][pc = "resolveEndpoints" =>
          LET given == cliOptions.endpoints
              config == GetConfig(configFile)
              passing == {i \in 1..Len(given) : validations'[i]}
              others == {k \in 1..Len(config.rpcUrls) :
                           config.rpcUrls[k] # config.defaultRpcUrl}
          IN  IF Len(given) > 0
              THEN IF passing = {} THEN pc' = "exited"
                   ELSE /\ pc' = "getCommand"
                        /\ IsSubsequenceAt(endpoints', given, passing)
              ELSE IF Len(config.rpcUrls) = 0 THEN pc' = "exited"
                   ELSE /\ pc' = "getCommand"
                        /\ IF Falsy(config.defaultRpcUrl)
                           THEN endpoints' = config.rpcUrls
                           ELSE /\ endpoints'[1] = config.defaultRpcUrl
                                /\ IsSubsequenceAt(Tail(endpoints'), config.rpcUrls, others)]_vars
  /\ [][pc = "getCommand" => pc' = "forEndpoints" /\ endpoints' = endpoints]_vars
  /\ [](pc \in {"getCommand", "forEndpoints"} => Len(endpoints) > 0)

\* getTimestamp is about to begin on the default, the second of three
\* configured URLs, followed by the first and the third.
C32_Witness ==
  /\ pc = "forEndpoints"
  /\ cliOptions.endpoints = << >>
  /\ configFile = <<[rpcUrls |-> <<1, 2, 3>>, defaultRpcUrl |-> 2]>>
  /\ endpoints = <<2, 1, 3>>

\* C33: when the getBlock of getTimestampFromSlot or one of its page requests
\* has failed for good, getTimestampFromSlot returns null whatever block times
\* the earlier pages gave, and getTimestamp records 'Could not determine' for
\* the endpoint and goes on with the loop.  A timestamp that is returned comes
\* from a pagination that reached the end of the history.
C33_PartialDiscarded ==
  /\ [][(pc = "retryThrew" /\ site \in {"slotBlock", "pageSignatures"}) =>
          (pc' = "gotResult" /\ result' = Null)]_vars
  /\ [][(pc = "gotResult" /\ attempts >= maxRetries) =>
          /\ result = Null
          /\ pc' = "forEndpoints"
          /\ lastError' = NoTimestampError(epIdx)
          /\ returned' = Null]_vars
  /\ [](pc = "returned" =>
          /\ returned = oldestBlockTime
          /\ attempts < maxRetries
          /\ OlderThan(connection, oldestSignature) = {})

\* The second page request has failed for good after a full first page gave a
\* block time: null is the result.
C33_Witness ==
  /\ pc = "gotResult"
  /\ site = "pageSignatures"
  /\ maxRetries = 2
  /\ attempts = 2
  /\ oldestBlockTime # Null
  /\ result = Null

\* C34: in every state of the coarse search a recorded candidate is the slot
\* right above high, and low is not above it; so when the loop is over
\* (low > high) the candidate that is returned is the final value of low.
C34_CandidateAboveHigh ==
  /\ firstProgramSlot # Null =>
       /\ firstProgramSlot = high + 1
       /\ low <= firstProgramSlot
  /\ (SearchOver /\ firstProgramSlot # Null) => firstProgramSlot = low

\* The search is over with a candidate that low has reached after probes that
\* answered false or failed below it.
C34_Witness ==
  /\ SearchOver
  /\ latestSlot = MaxCoarseSlot
  /\ firstProgramSlot = 3
  /\ low = 3
  /\ high = 2
  /\ failedProbes # {}

\* C35: within one search no slot is probed twice.  A probe is of a slot of
\* low..high that is neither cached nor among the failed ones; a probe at
\* checkSlot always goes to its getBlock call, never to the cached answer; the
\* probe over, its slot is outside the interval, which only ever shrinks, and
\* the slots cached or failed so far are outside it as well.
C35_NoSlotProbedTwice ==
  /\ [](InSearch =>
          \A s \in DOMAIN foundSignaturesAtSlot \cup failedProbes : s \notin low..high)
  /\ []((InSearch /\ pc # "whileLowHigh") =>
          /\ mid \in low..high
          /\ mid \notin DOMAIN foundSignaturesAtSlot
          /\ mid \notin failedProbes)
  /\ [][pc = "checkSlot" =>
          /\ site' = "probeBlock"
          /\ pc' # "whileLowHigh"
          /\ invocations' <= 1
          /\ UNCHANGED <<low, high, mid>>]_vars
  /\ [][(InSearch /\ pc # "whileLowHigh" /\ pc' = "whileLowHigh") =>
          /\ mid \notin low'..high'
          /\ low' >= low
          /\ high' <= high]_vars
  /\ [][(InSearch /\ InSearch' /\ pc' # "whileLowHigh") =>
          UNCHANGED <<low, high>>]_vars

\* A third probe begins after one probe that was cached and one that failed:
\* its slot is a new one.
C35_Witness ==
  /\ pc = "checkSlot"
  /\ latestSlot = MaxCoarseSlot
  /\ DOMAIN foundSignaturesAtSlot # {}
  /\ failedProbes # {}
  /\ mid \notin DOMAIN foundSignaturesAtSlot \cup failedProbes

\* C36: with maxRetries <= 0 retryOperation never invokes its operation and
\* never waits: it throws '<name> failed after N attempts' at once.  So
\* getTimestamp issues no remote call at all: with a valid program id every
\* endpoint fails at getSlot with that error (with an invalid id the endpoint
\* fails before, at the validation), and the last of these errors is the
\* reason of the error thrown after the loop.
C36_NoAttemptsNoCalls ==
  maxRetries <= 0 =>
    /\ invocations = 0
    /\ waited = 0
    /\ contacted = {}
    /\ pc \notin {"invoke", "sleep", "retryReturned", "returned"}
    /\ pc = "retryThrew" =>
         /\ site = "getSlot"
         /\ error = RetriesFailedError("getSlot", epIdx)
    /\ (pc \in {"forEndpoints", "threw"} /\ epIdx >= 1) =>
         lastError = IF isValidProgramId(programId)
                     THEN RetriesFailedError("getSlot", epIdx)
                     ELSE InvalidProgramIdError(epIdx)
    /\ pc = "threw" =>
         /\ epIdx = Len(endpoints)
         /\ thrown = AllFailedError(lastError)

\* getTimestamp has thrown on two endpoints with a negative maxRetries and a
\* valid program id: both failed at getSlot and no call was issued.
C36_Witness ==
  /\ pc = "threw"
  /\ maxRetries < 0
  /\ programId = SystemProgramId
  /\ Len(endpoints) = 2
  /\ thrown = AllFailedError(RetriesFailedError("getSlot", 2))
  /\ contacted = {}

\* C37: with an empty endpoint list getTimestamp is either at the head of its
\* loop or has thrown the error that follows the loop, with 'Unknown error'
\* for its reason: the program id, valid or not, is never validated, no
\* connection is made and no remote call is issued.
C37_EmptyListUnknownError ==
  endpoints = << >> =>
    /\ pc \in {"forEndpoints", "threw"}
    /\ epIdx = 0
    /\ connection = NoConnection
    /\ lastError = NoError
    /\ returned = Null
    /\ invocations = 0
    /\ contacted = {}
    /\ thrown = IF pc = "threw" THEN AllFailedError(NoError) ELSE NoError

\* getTimestamp has thrown on an empty list with an invalid program id, the
\* reason being 'Unknown error'.
C37_Witness ==
  /\ endpoints = << >>
  /\ programId \in InvalidProgramIds
  /\ pc = "threw"
  /\ thrown = AllFailedError(NoError)

\* C38: whatever addRpcUrl, removeRpcUrl and setDefaultRpcUrl calls were made
\* on a configuration that began empty, and whichever of their writes failed,
\* the list holds no URL twice and, when it is not empty, defaultRpcUrl is set;
\* when the empty string is not in the list, getDefaultRpcUrl reports the
\* default, and with an empty list it reports none.
C38_DefaultSetNoRepeats ==
  LET config == GetConfig(configFile)
      rpcUrls == config.rpcUrls
  IN  /\ \A i, j \in 1..Len(rpcUrls) : rpcUrls[i] = rpcUrls[j] => i = j
      /\ Len(rpcUrls) > 0 => config.defaultRpcUrl # Null
      /\ (Len(rpcUrls) > 0 /\ ~Includes(rpcUrls, EmptyUrl)) =>
           GetDefaultRpcUrl(configFile) # Null
      /\ Len(rpcUrls) = 0 => GetDefaultRpcUrl(configFile) = Null

\* A URL that is in the list already has been added again: the list of two
\* and its default are as they were.
C38_Witness ==
  /\ lastCall = [op |-> "addRpcUrl", url |-> 2, result |-> TRUE]
  /\ configFile = <<[rpcUrls |-> <<2, 3>>, defaultRpcUrl |-> 3]>>

=============================================================================
